---- MODULE Spec2Model ----
(***************************************************************************)
(* Analogy-Engine: the agent response parsers (Scout, Matcher, Critic,     *)
(* Architect), the ontology alignment checker and the pipeline driver      *)
(* app.run_pipeline, as a state machine.                                   *)
(*                                                                         *)
(* Conventions.                                                            *)
(*  - A text (an LLM reply, a label) is a sequence of one-token strings.   *)
(*    Reply tokens: "sp" (space), "nl" (newline), "w" (a prose word),      *)
(*    "FJ" (the fence ```json), "F" (the fence ```), "{", "}", "[", "]",   *)
(*    "1" (a JSON number) and "M" (the member list of a JSON object, whose *)
(*    parsed content is the reply's obj field).                            *)
(*  - A JSON value is a record tagged by k: null, bool, num, str, text,    *)
(*    list, dict.  A dict's v is a function from key strings to values.    *)
(*  - Floats (score, confidence) are integers in hundredths: 0.8 is 80.    *)
(***************************************************************************)
EXTENDS Integers, Sequences, FiniteSets, TLC

VARIABLES
    pc,                 \* position of the driver / of the unit under check
    text_source,        \* run_pipeline argument
    text_target,        \* run_pipeline argument
    graph_a,            \* run_pipeline local
    graph_b,            \* run_pipeline local
    mapping,            \* run_pipeline local
    ontology_ok,        \* run_pipeline local
    ontology_issues,    \* run_pipeline local
    hypothesis,         \* run_pipeline local
    refined_mapping,    \* run_pipeline local
    ref_ontology_ok,    \* run_pipeline local
    ref_ontology_issues,\* run_pipeline local
    final_hypothesis,   \* run_pipeline local
    report,             \* run_pipeline local
    calls,              \* number of process() invocations per agent
    llm_calls,          \* number of LLM chats initiated
    matcher_inputs,     \* the data argument of each Matcher.process call
    critic_replies,     \* the raw reply each Critic.process call received
    exc,                \* the exception that ended the run, or "none"
    memory,             \* Librarian: the entries of the memory file
    agent,              \* unit checks: the agent under check
    reply,              \* unit checks: the raw LLM reply
    result,             \* unit checks: outcome of process / of the function
    session,            \* main: the credentials in the sidebar and in the environment
    llm_config,         \* main: the configuration handed to run_pipeline
    lpc,                \* Librarian: position of each caller inside store_report
    entries,            \* Librarian: store_report's local entries, per caller
    clock               \* datetime.now(timezone.utc)

\* the state outside run_pipeline
outside == <<session, llm_config, lpc, entries, clock>>

vars == <<pc, text_source, text_target, graph_a, graph_b, mapping, ontology_ok,
          ontology_issues, hypothesis, refined_mapping, ref_ontology_ok,
          ref_ontology_issues, final_hypothesis, report, calls, llm_calls,
          matcher_inputs, critic_replies, exc, memory, agent, reply, result, outside>>

(***************************************************************************)
(* Python values                                                           *)
(***************************************************************************)
None == [k |-> "none"]

JNull == [k |-> "null"]

JBool(b) == [k |-> "bool", v |-> b]

JNum(n) == [k |-> "num", v |-> n]

JStr(s) == [k |-> "str", v |-> s]

JText(cs) == [k |-> "text", v |-> cs]

JList(l) == [k |-> "list", v |-> l]

JDict(d) == [k |-> "dict", v |-> d]

EmptyDict == JDict(<< >>)

IsDict(x) == x.k = "dict"

IsList(x) == x.k = "list"

IsStr(x) == x.k \in {"str", "text"}

HasKey(obj, key) == key \in DOMAIN obj.v

\* dict.get(key, default)
Get(obj, key, default) == IF HasKey(obj, key) THEN obj.v[key] ELSE default

\* dict with obj[key] = val
SetKey(obj, key, val) ==
    JDict([x \in (DOMAIN obj.v) \cup {key} |-> IF x = key THEN val ELSE obj.v[x]])

\* bool(x)
Truthy(x) ==
    CASE x.k = "null" -> FALSE
      [] x.k = "bool" -> x.v
      [] x.k = "num" -> x.v # 0
      [] x.k = "str" -> x.v # ""
      [] x.k \in {"text", "list"} -> Len(x.v) > 0
      [] x.k = "dict" -> DOMAIN x.v # {}
      [] OTHER -> FALSE

\* objects Python can iterate with a for loop
Iterable(x) == x.k \in {"str", "text", "list", "dict"}

\* objects that can be looked up in a frozenset
Hashable(x) == x.k \notin {"list", "dict"}

Range(s) == {s[i] : i \in DOMAIN s}

(***************************************************************************)
(* Text helpers (str.strip, the fence regular expressions, json.loads)     *)
(***************************************************************************)
IsSpace(c) == c \in {"sp", "nl", " "}

\* the tokens that contain "```"
FenceToks == {"F", "FJ"}

RECURSIVE LStrip(_)
LStrip(s) == IF s # << >> /\ IsSpace(Head(s)) THEN LStrip(Tail(s)) ELSE s

RECURSIVE RStrip(_)
RStrip(s) ==
    IF s # << >> /\ IsSpace(s[Len(s)]) THEN RStrip(SubSeq(s, 1, Len(s) - 1)) ELSE s

\* str.strip()
Strip(s) == RStrip(LStrip(s))

\* s[i:] (1-based, inclusive start)
From(s, i) == SubSeq(s, i, Len(s))

\* index of the first position >= i whose token is not whitespace
RECURSIVE SkipSpace(_, _)
SkipSpace(s, i) == IF i <= Len(s) /\ IsSpace(s[i]) THEN SkipSpace(s, i + 1) ELSE i

\* start of the whitespace run that ends just before position i
RECURSIVE SpaceRunStart(_, _)
SpaceRunStart(s, i) == IF i > 1 /\ IsSpace(s[i - 1]) THEN SpaceRunStart(s, i - 1) ELSE i

\* the positions of s that hold one of the tokens cs
Positions(s, cs) == {i \in DOMAIN s : s[i] \in cs}

Min(S) == CHOOSE x \in S : \A y \in S : x <= y

Max(S) == CHOOSE x \in S : \A y \in S : x >= y

\* the token "```json"
JsonFenceToks == {"FJ"}

NewlineToks == {"nl"}

\* "```json" in content
HasJsonFence(s) == Positions(s, JsonFenceToks) # {}

\* "```" in content
HasFence(s) == Positions(s, FenceToks) # {}

\* re.sub(r"^.*?```json\s*", "", content, flags=re.DOTALL)
SubJsonFencePrefixDotall(s) ==
    IF HasJsonFence(s) THEN From(s, SkipSpace(s, Min(Positions(s, JsonFenceToks)) + 1)) ELSE s

\* re.sub(r"^.*?```json\s*", "", content): without DOTALL "." stops at a newline,
\* so only a fence on the first line matches
SubJsonFencePrefixLine(s) ==
    LET fj == Positions(s, JsonFenceToks)
        nls == Positions(s, NewlineToks)
    IN  IF fj # {} /\ (nls = {} \/ Min(fj) < Min(nls))
        THEN From(s, SkipSpace(s, Min(fj) + 1))
        ELSE s

\* re.sub(r"\s*```.*$", "", content, flags=re.DOTALL): everything from the first fence
SubFenceSuffixDotall(s) ==
    IF HasFence(s) THEN SubSeq(s, 1, SpaceRunStart(s, Min(Positions(s, FenceToks))) - 1) ELSE s

\* re.sub(r"\s*```.*$", "", content): without DOTALL only a fence on the last line
\* matches ("$" also matches before one final newline)
SubFenceSuffixLine(s) ==
    LET n == Len(s)
        body == IF n > 0 /\ s[n] = "nl" THEN SubSeq(s, 1, n - 1) ELSE s
        nls == Positions(body, NewlineToks)
        lastStart == IF nls = {} THEN 1 ELSE Max(nls) + 1
        fl == {i \in Positions(body, FenceToks) : i >= lastStart}
    IN  IF fl = {} THEN s
        ELSE SubSeq(s, 1, SpaceRunStart(s, Min(fl)) - 1) \o From(s, Len(body) + 1)

\* re.sub(r"```json\s*", "", content, flags=re.DOTALL): every ```json and the
\* whitespace after it
RECURSIVE SubAllJsonFence(_)
SubAllJsonFence(s) ==
    IF s = << >> THEN << >>
    ELSE IF Head(s) = "FJ" THEN SubAllJsonFence(LStrip(Tail(s)))
    ELSE <<Head(s)>> \o SubAllJsonFence(Tail(s))

\* re.sub(r"```", "", cleaned_text)
SubAllFence(s) == SelectSeq(s, LAMBDA c : c # "F")

(***************************************************************************)
(* json.loads on the token language:                                       *)
(*   value  ::= "{" ["M"] "}"  |  "[" [value] "]"  |  "1"                  *)
(* with whitespace allowed between tokens; anything else, and anything     *)
(* after the value, is a JSONDecodeError.  obj is the content of "M".      *)
(***************************************************************************)
ParseFail == [ok |-> FALSE, next |-> 0, val |-> JNull]

RECURSIVE ParseValue(_, _, _)
ParseValue(s, i0, obj) ==
    LET i == SkipSpace(s, i0)
    IN  IF i > Len(s) THEN ParseFail
        ELSE IF s[i] = "1" THEN [ok |-> TRUE, next |-> i + 1, val |-> JNum(1)]
        ELSE IF s[i] = "{" THEN
            LET j == SkipSpace(s, i + 1)
            IN  IF j <= Len(s) /\ s[j] = "}"
                THEN [ok |-> TRUE, next |-> j + 1, val |-> EmptyDict]
                ELSE IF j <= Len(s) /\ s[j] = "M"
                THEN LET e == SkipSpace(s, j + 1)
                     IN  IF e <= Len(s) /\ s[e] = "}"
                         THEN [ok |-> TRUE, next |-> e + 1, val |-> obj]
                         ELSE ParseFail
                ELSE ParseFail
        ELSE IF s[i] = "[" THEN
            LET j == SkipSpace(s, i + 1)
            IN  IF j <= Len(s) /\ s[j] = "]"
                THEN [ok |-> TRUE, next |-> j + 1, val |-> JList(<< >>)]
                ELSE LET r == ParseValue(s, j, obj)
                         e == SkipSpace(s, r.next)
                     IN  IF r.ok /\ e <= Len(s) /\ s[e] = "]"
                         THEN [ok |-> TRUE, next |-> e + 1, val |-> JList(<<r.val>>)]
                         ELSE ParseFail
        ELSE ParseFail

\* json.loads(content): ok = FALSE stands for JSONDecodeError
JsonLoads(s, obj) ==
    LET r == ParseValue(s, 1, obj)
    IN  IF r.ok /\ SkipSpace(s, r.next) > Len(s)
        THEN [ok |-> TRUE, val |-> r.val]
        ELSE [ok |-> FALSE, val |-> JNull]

\* _run_chat: the reply's content, or "{}" when the content is empty
RunChat(r) ==
    IF r.toks = << >> THEN [toks |-> <<"{", "}">>, obj |-> r.obj] ELSE r

(***************************************************************************)
(* core/ontology.py and core/schema.py                                     *)
(***************************************************************************)
VALID_NODE_TYPES == {"STRUCTURE", "FUNCTION", "ATTRIBUTE"}

EmptyGraph == [nodes |-> << >>, edges |-> << >>]

\* LogicNode validation of one element of nodes: id and label are required
\* strings, node_type is one of the three literals (default STRUCTURE)
ValidNodeItem(n) ==
    /\ IsDict(n)
    /\ HasKey(n, "id") /\ IsStr(n.v["id"])
    /\ HasKey(n, "label") /\ IsStr(n.v["label"])
    /\ HasKey(n, "node_type") =>
         (n.v["node_type"].k = "str" /\ n.v["node_type"].v \in VALID_NODE_TYPES)

LogicNode(n) ==
    [id |-> n.v["id"].v,
     label |-> n.v["label"].v,
     node_type |-> IF HasKey(n, "node_type") THEN n.v["node_type"].v ELSE "STRUCTURE"]

\* LogicEdge validation: source, target and relation are required strings
ValidEdgeItem(e) ==
    /\ IsDict(e)
    /\ \A f \in {"source", "target", "relation"} : HasKey(e, f) /\ IsStr(e.v[f])

LogicEdge(e) ==
    [source |-> e.v["source"].v, target |-> e.v["target"].v, relation |-> e.v["relation"].v]

\* LogicalPropertyGraph(**obj): ok = FALSE stands for ValidationError
LogicalPropertyGraph(obj) ==
    LET ns == Get(obj, "nodes", JList(<< >>))
        es == Get(obj, "edges", JList(<< >>))
        good == /\ IsList(ns) /\ \A i \in DOMAIN ns.v : ValidNodeItem(ns.v[i])
                /\ IsList(es) /\ \A i \in DOMAIN es.v : ValidEdgeItem(es.v[i])
    IN  IF good
        THEN [ok |-> TRUE,
              val |-> [nodes |-> [i \in DOMAIN ns.v |-> LogicNode(ns.v[i])],
                       edges |-> [i \in DOMAIN es.v |-> LogicEdge(es.v[i])]]]
        ELSE [ok |-> FALSE, val |-> EmptyGraph]

(***************************************************************************)
(* agents/scout.py                                                         *)
(***************************************************************************)
\* variant: only whitespace separates words
IsSep_SpaceOnly(c) == c = " "

\* the characters of a run matched by [_\s]+
IsSep(c) == c \in {" ", "_"}

Upper(c) == CASE c = "a" -> "A" [] c = "b" -> "B" [] OTHER -> c

Lower(c) == CASE c = "A" -> "a" [] c = "B" -> "b" [] OTHER -> c

\* the words of s: maximal runs of characters that are neither whitespace nor "_"
RECURSIVE Words(_, _)
Words(s, cur) ==
    IF s = << >> THEN (IF cur = << >> THEN << >> ELSE <<cur>>)
    ELSE IF IsSep(Head(s))
         THEN (IF cur = << >> THEN << >> ELSE <<cur>>) \o Words(Tail(s), << >>)
         ELSE Words(Tail(s), Append(cur, Head(s)))

Capitalize(p) == <<Upper(p[1])>> \o [i \in 1..(Len(p) - 1) |-> Lower(p[i + 1])]

RECURSIVE Concat(_)
Concat(ps) == IF ps = << >> THEN << >> ELSE Head(ps) \o Concat(Tail(ps))

\* Scout._to_pascal_case
to_pascal_case(s) ==
    IF s = << >> \/ Strip(s) = << >> THEN s
    ELSE LET parts == Words(Strip(s), << >>)
         IN  Concat([i \in DOMAIN parts |-> Capitalize(parts[i])])

\* str(x) for the values a label can take
PyStr(x) ==
    CASE x.k = "text" -> x.v
      [] x.k = "null" -> <<"N", "o", "n", "e">>
      [] x.k = "num" -> <<"1">>
      [] OTHER -> <<"?">>

\* body of the loop over obj.get("nodes", []): rewrite the label, default the type
NormalizeNode(node) ==
    IF ~IsDict(node) THEN node
    ELSE LET n1 == IF HasKey(node, "label")
                   THEN SetKey(node, "label", JText(to_pascal_case(PyStr(node.v["label"]))))
                   ELSE node
             t == Get(n1, "node_type", JNull)
         IN  IF ~(t.k = "str" /\ t.v \in VALID_NODE_TYPES)
             THEN SetKey(n1, "node_type", JStr("STRUCTURE"))
             ELSE n1

\* the elements the for loop visits: list items; the characters of a string and
\* the keys of a dict are strings, never dicts
LoopItems(x) == IF IsList(x) THEN x.v ELSE << >>

\* the loop raises TypeError when nodes is not iterable or when a node_type is
\* unhashable (list or dict looked up in the frozenset)
NodeLoopRaises(nodes) ==
    \/ ~Iterable(nodes)
    \/ \E i \in DOMAIN LoopItems(nodes) :
         LET n == LoopItems(nodes)[i]
         IN  IsDict(n) /\ ~Hashable(Get(n, "node_type", JNull))

Returned(v) == [raised |-> FALSE, exc |-> "none", value |-> v]

Raised(e) == [raised |-> TRUE, exc |-> e, value |-> None]

\* no JSON value obtained: the stripped content is empty or json.loads fails
NoJson == [ok |-> FALSE, val |-> JNull]

\* the Scout's extraction: strip, fence regexes without DOTALL, strip, json.loads
scout_extract(r) ==
    LET c0 == Strip(r.toks)
        c1 == IF HasJsonFence(c0) THEN SubJsonFencePrefixLine(c0) ELSE c0
        c2 == IF HasFence(c1) THEN SubFenceSuffixLine(c1) ELSE c1
        content == Strip(c2)
    IN  IF content = << >> THEN NoJson ELSE JsonLoads(content, r.obj)

\* Scout._parse_graph_response after the extraction: the node loop and the
\* validation of the loaded value
graph_from_json(parsed) ==
    LET obj == parsed.val
        nodes == Get(obj, "nodes", JList(<< >>))
        obj2 == IF HasKey(obj, "nodes") /\ IsList(nodes)
                THEN SetKey(obj, "nodes",
                            JList([i \in DOMAIN nodes.v |-> NormalizeNode(nodes.v[i])]))
                ELSE obj
        g == LogicalPropertyGraph(obj2)
    IN  IF ~parsed.ok THEN Returned(EmptyGraph)
        ELSE IF IsDict(obj) /\ (HasKey(obj, "nodes") \/ HasKey(obj, "edges"))
             THEN IF NodeLoopRaises(nodes) THEN Raised("TypeError")
                  ELSE IF g.ok THEN Returned(g.val)
                  ELSE Returned(EmptyGraph)
        ELSE Returned(EmptyGraph)

\* Scout._parse_graph_response
parse_graph_response(r) == graph_from_json(scout_extract(r))

\* variant: the chat is started whatever the text is
ScoutProcess_AlwaysChat(text, r) ==
    [out |-> parse_graph_response(RunChat(r)), llm |-> 1]

\* Scout.process: [out |-> outcome, llm |-> number of LLM chats]
ScoutProcess(text, r) ==
    IF Strip(text) = << >>
    THEN [out |-> Returned(EmptyGraph), llm |-> 0]
    ELSE [out |-> parse_graph_response(RunChat(r)), llm |-> 1]

(***************************************************************************)
(* core/ontology.py: check_ontology_alignment                              *)
(***************************************************************************)
\* {n.id: n for n in nodes}: a later node with the same id replaces an earlier one
RECURSIVE NodeDict(_, _)
NodeDict(nodes, i) ==
    IF i = 0 THEN << >> ELSE (nodes[i].id :> nodes[i]) @@ NodeDict(nodes, i - 1)

MismatchIssue(na, nb, match) ==
    <<"Categorical mismatch", na.node_type, nb.node_type, match.source_id, match.target_id>>

\* variant: the loop ends at the first match with a missing node (break for continue)
RECURSIVE AlignLoop_BreakOnMissing(_, _, _, _)
AlignLoop_BreakOnMissing(matches, i, nodes_a, nodes_b) ==
    IF i > Len(matches) THEN << >>
    ELSE LET match == matches[i]
             rest == AlignLoop_BreakOnMissing(matches, i + 1, nodes_a, nodes_b)
         IN  IF match.source_id \notin DOMAIN nodes_a \/ match.target_id \notin DOMAIN nodes_b
             THEN << >>
             ELSE IF nodes_a[match.source_id].node_type # nodes_b[match.target_id].node_type
             THEN <<MismatchIssue(nodes_a[match.source_id], nodes_b[match.target_id], match)>>
                  \o rest
             ELSE rest

\* variant: the loop returns at the first mismatch
RECURSIVE AlignLoop_StopAtFirst(_, _, _, _)
AlignLoop_StopAtFirst(matches, i, nodes_a, nodes_b) ==
    IF i > Len(matches) THEN << >>
    ELSE LET match == matches[i]
             rest == AlignLoop_StopAtFirst(matches, i + 1, nodes_a, nodes_b)
         IN  IF match.source_id \notin DOMAIN nodes_a \/ match.target_id \notin DOMAIN nodes_b
             THEN rest
             ELSE IF nodes_a[match.source_id].node_type # nodes_b[match.target_id].node_type
             THEN <<MismatchIssue(nodes_a[match.source_id], nodes_b[match.target_id], match)>>
             ELSE rest

\* the loop over mapping.node_matches, from match i on
RECURSIVE AlignLoop(_, _, _, _)
AlignLoop(matches, i, nodes_a, nodes_b) ==
    IF i > Len(matches) THEN << >>
    ELSE LET match == matches[i]
             rest == AlignLoop(matches, i + 1, nodes_a, nodes_b)
         IN  IF match.source_id \notin DOMAIN nodes_a \/ match.target_id \notin DOMAIN nodes_b
             THEN rest
             ELSE IF nodes_a[match.source_id].node_type # nodes_b[match.target_id].node_type
             THEN <<MismatchIssue(nodes_a[match.source_id], nodes_b[match.target_id], match)>>
                  \o rest
             ELSE rest

check_ontology_alignment(m, ga, gb) ==
    LET nodes_a == NodeDict(ga.nodes, Len(ga.nodes))
        nodes_b == NodeDict(gb.nodes, Len(gb.nodes))
        issues == AlignLoop(m.node_matches, 1, nodes_a, nodes_b)
    IN  [ok |-> Len(issues) = 0, issues |-> issues]

(***************************************************************************)
(* agents/matcher.py                                                       *)
(***************************************************************************)
NoOntology == "<None>"

FAILED_TO_PARSE == "Failed to parse Matcher response."

FallbackMapping(id_a, id_b) ==
    [graph_a_id |-> id_a, graph_b_id |-> id_b, node_matches |-> << >>,
     edge_mappings |-> << >>, score |-> 0, explanation |-> FAILED_TO_PARSE]

\* Optional[str] field of NodeMatch
ValidOptStr(d, f) == HasKey(d, f) => (d.v[f].k \in {"str", "null"})

OptStr(d, f) == IF HasKey(d, f) /\ d.v[f].k = "str" THEN d.v[f].v ELSE NoOntology

ValidMatchItem(x) ==
    /\ IsDict(x)
    /\ \A f \in {"source_id", "target_id", "reasoning"} : HasKey(x, f) /\ x.v[f].k = "str"
    /\ ValidOptStr(x, "source_ontology")
    /\ ValidOptStr(x, "target_ontology")

NodeMatch(x) ==
    [source_id |-> x.v["source_id"].v, target_id |-> x.v["target_id"].v,
     reasoning |-> x.v["reasoning"].v,
     source_ontology |-> OptStr(x, "source_ontology"),
     target_ontology |-> OptStr(x, "target_ontology")]

\* isinstance(x, (list, tuple)) and len(x) == 2 and all(isinstance(e, str) for e in x)
IsStrPair(x) == IsList(x) /\ Len(x.v) = 2 /\ \A i \in 1..2 : x.v[i].k = "str"

\* variant: the score is accepted whatever its value
AnalogyMappingValidate_NoBounds(obj) ==
    LET nm == Get(obj, "node_matches", JList(<< >>))
        em == Get(obj, "edge_mappings", JList(<< >>))
        sc == Get(obj, "score", JNum(0))
        ex == Get(obj, "explanation", JStr(""))
        good == /\ obj.v["graph_a_id"].k = "str" /\ obj.v["graph_b_id"].k = "str"
                /\ IsList(nm) /\ \A i \in DOMAIN nm.v : ValidMatchItem(nm.v[i])
                /\ IsList(em) /\ \A i \in DOMAIN em.v : IsStrPair(em.v[i])
                /\ sc.k = "num"
                /\ ex.k = "str"
    IN  IF good
        THEN [ok |-> TRUE,
              val |-> [graph_a_id |-> obj.v["graph_a_id"].v,
                       graph_b_id |-> obj.v["graph_b_id"].v,
                       node_matches |-> [i \in DOMAIN nm.v |-> NodeMatch(nm.v[i])],
                       edge_mappings |-> [i \in DOMAIN em.v |->
                                            <<em.v[i].v[1].v, em.v[i].v[2].v>>],
                       score |-> sc.v, explanation |-> ex.v]]
        ELSE [ok |-> FALSE, val |-> None]

\* AnalogyMapping.model_validate(obj): ok = FALSE stands for ValidationError
AnalogyMappingValidate(obj) ==
    LET nm == Get(obj, "node_matches", JList(<< >>))
        em == Get(obj, "edge_mappings", JList(<< >>))
        sc == Get(obj, "score", JNum(0))
        ex == Get(obj, "explanation", JStr(""))
        good == /\ obj.v["graph_a_id"].k = "str" /\ obj.v["graph_b_id"].k = "str"
                /\ IsList(nm) /\ \A i \in DOMAIN nm.v : ValidMatchItem(nm.v[i])
                /\ IsList(em) /\ \A i \in DOMAIN em.v : IsStrPair(em.v[i])
                /\ sc.k = "num" /\ sc.v >= 0 /\ sc.v <= 100
                /\ ex.k = "str"
    IN  IF good
        THEN [ok |-> TRUE,
              val |-> [graph_a_id |-> obj.v["graph_a_id"].v,
                       graph_b_id |-> obj.v["graph_b_id"].v,
                       node_matches |-> [i \in DOMAIN nm.v |-> NodeMatch(nm.v[i])],
                       edge_mappings |-> [i \in DOMAIN em.v |->
                                            <<em.v[i].v[1].v, em.v[i].v[2].v>>],
                       score |-> sc.v, explanation |-> ex.v]]
        ELSE [ok |-> FALSE, val |-> None]

\* obj.setdefault(key, val)
SetDefault(obj, key, val) == IF HasKey(obj, key) THEN obj ELSE SetKey(obj, key, JStr(val))

\* the sanitizer: a list edge_mappings with a malformed element is emptied
SanitizeEdgeMappings(obj) ==
    IF HasKey(obj, "edge_mappings") /\ IsList(obj.v["edge_mappings"])
       /\ ~(\A i \in DOMAIN obj.v["edge_mappings"].v : IsStrPair(obj.v["edge_mappings"].v[i]))
    THEN SetKey(obj, "edge_mappings", JList(<< >>))
    ELSE obj

\* the Matcher's extraction: strip, fence regexes with DOTALL, strip, json.loads
matcher_extract(r) ==
    LET c0 == Strip(r.toks)
        c1 == IF HasJsonFence(c0) THEN SubJsonFencePrefixDotall(c0) ELSE c0
        c2 == IF HasFence(c1) THEN SubFenceSuffixDotall(c1) ELSE c1
        content == Strip(c2)
    IN  IF content = << >> THEN NoJson ELSE JsonLoads(content, r.obj)

\* Matcher._parse_mapping_response after the extraction: the defaults, the
\* sanitizer and the validation of the loaded value
mapping_from_json(parsed, id_a, id_b) ==
    LET fallback == FallbackMapping(id_a, id_b)
        obj == SanitizeEdgeMappings(
                  SetDefault(SetDefault(parsed.val, "graph_a_id", id_a), "graph_b_id", id_b))
        m == AnalogyMappingValidate(obj)
    IN  IF ~parsed.ok THEN fallback
        ELSE IF ~IsDict(parsed.val) THEN fallback
        ELSE IF m.ok THEN m.val
        ELSE fallback

\* Matcher._parse_mapping_response
parse_mapping_response(r, id_a, id_b) ==
    mapping_from_json(matcher_extract(r), id_a, id_b)

\* the dict {"graph_a": ga, "graph_b": gb} the driver passes to Matcher.process
MatcherInput(ga, gb) == JDict([graph_a |-> ga, graph_b |-> gb])

\* isinstance(value, LogicalPropertyGraph): a graph instance has the fields nodes
\* and edges; any other Python value is a tagged value
IsGraphInstance(value) == "nodes" \in DOMAIN value

\* Matcher._ensure_graph: an instance is returned as it is, anything else goes
\* through LogicalPropertyGraph.model_validate
ensure_graph(value) ==
    IF IsGraphInstance(value) THEN Returned(value)
    ELSE IF IsDict(value) /\ LogicalPropertyGraph(value).ok
         THEN Returned(LogicalPropertyGraph(value).val)
         ELSE Raised("ValidationError")

\* Matcher._parse_input: a list or tuple of at least two elements (the first two
\* are used), or a dict with the keys graph_a and graph_b; otherwise ValueError
parse_input(data) ==
    LET raw == IF IsList(data) /\ Len(data.v) >= 2
               THEN [ok |-> TRUE, a |-> data.v[1], b |-> data.v[2]]
               ELSE IF IsDict(data) /\ HasKey(data, "graph_a") /\ HasKey(data, "graph_b")
               THEN [ok |-> TRUE, a |-> data.v["graph_a"], b |-> data.v["graph_b"]]
               ELSE [ok |-> FALSE, a |-> None, b |-> None]
    IN  IF ~raw.ok THEN Raised("ValueError")
        ELSE IF ensure_graph(raw.a).raised THEN ensure_graph(raw.a)
        ELSE IF ensure_graph(raw.b).raised THEN ensure_graph(raw.b)
        ELSE Returned(<<ensure_graph(raw.a).value, ensure_graph(raw.b).value>>)

\* Matcher.process: [out |-> outcome, llm |-> number of LLM chats]; the input is
\* parsed before the chat is started
MatcherProcess(data, r) ==
    IF parse_input(data).raised
    THEN [out |-> parse_input(data), llm |-> 0]
    ELSE [out |-> Returned(parse_mapping_response(RunChat(r), "graph_a", "graph_b")),
          llm |-> 1]

(***************************************************************************)
(* agents/critic.py                                                        *)
(***************************************************************************)
CRITIC_FAILED == <<"Critic failed to parse or validate response.">>

\* str(it) for one element of issues
IssueStr(x) ==
    CASE x.k = "str" -> <<x.v>>
      [] x.k = "null" -> <<"None">>
      [] OTHER -> <<"repr", x.k>>

\* float(x): ok = FALSE stands for TypeError / ValueError
PyFloat(x) ==
    CASE x.k = "num" -> [ok |-> TRUE, val |-> x.v]
      [] x.k = "bool" -> [ok |-> TRUE, val |-> IF x.v THEN 100 ELSE 0]
      [] OTHER -> [ok |-> FALSE, val |-> 0]

ValidatedHypothesis(m, cons, iss, conf, props) ==
    [mapping |-> m, is_consistent |-> cons, issues |-> iss, confidence |-> conf,
     properties |-> props]

NoProperties == [fallback |-> FALSE, critic_raw |-> None]

CriticFallback(m) ==
    ValidatedHypothesis(m, TRUE, <<CRITIC_FAILED>>, 0, [fallback |-> TRUE, critic_raw |-> None])

\* the programmatic reinforcement loop over mapping.node_matches
AnnotationMismatch(match) ==
    /\ match.source_ontology # NoOntology
    /\ match.target_ontology # NoOntology
    /\ match.source_ontology # match.target_ontology

AnnotationIssue(i, match) ==
    <<"Categorical mismatch", match.source_ontology, match.target_ontology,
      "match", match.source_id, match.target_id>>

RECURSIVE Reinforce(_, _)
Reinforce(matches, i) ==
    IF i > Len(matches) THEN << >>
    ELSE (IF AnnotationMismatch(matches[i]) THEN <<AnnotationIssue(i, matches[i])>> ELSE << >>)
         \o Reinforce(matches, i + 1)

\* the verdict after the loop: a mismatch only ever sets is_consistent to False
CriticVerdict(llm_consistent, extra) == llm_consistent /\ extra = << >>

\* variant: the loop's issues replace the LLM's instead of being appended
CriticIssues_Overwrite(llm_issues, extra) == IF extra # << >> THEN extra ELSE llm_issues

\* the issues after the loop: the loop only appends to the LLM's issues
CriticIssues(llm_issues, extra) == llm_issues \o extra

\* the Critic's extraction: strip, fence regexes with DOTALL, strip, json.loads
critic_extract(r) ==
    LET c0 == Strip(r.toks)
        c1 == IF HasJsonFence(c0) THEN SubJsonFencePrefixDotall(c0) ELSE c0
        c2 == IF HasFence(c1) THEN SubFenceSuffixDotall(c1) ELSE c1
        content == Strip(c2)
    IN  IF content = << >> THEN NoJson ELSE JsonLoads(content, r.obj)

\* Critic._parse_response after the extraction: the fields read from the loaded
\* value, the reinforcement loop and the validation
hypothesis_from_json(parsed, m) ==
    LET fallback == CriticFallback(m)
        obj == parsed.val
        llm_consistent == Truthy(Get(obj, "is_consistent", JBool(TRUE)))
        issues_raw == Get(obj, "issues", JList(<< >>))
        llm_issues == IF ~IsList(issues_raw) THEN <<IssueStr(issues_raw)>>
                      ELSE [i \in DOMAIN issues_raw.v |-> IssueStr(issues_raw.v[i])]
        conf == PyFloat(Get(obj, "confidence", JNum(0)))
        extra == Reinforce(m.node_matches, 1)
        is_consistent == CriticVerdict(llm_consistent, extra)
    IN  IF ~parsed.ok THEN Returned(fallback)
        ELSE IF ~IsDict(obj) THEN Returned(fallback)
        ELSE IF ~conf.ok THEN Returned(fallback)
        ELSE IF conf.val < 0 \/ conf.val > 100 THEN Raised("ValidationError")
        ELSE Returned(ValidatedHypothesis(m, is_consistent, CriticIssues(llm_issues, extra),
                                          conf.val,
                                          [fallback |-> FALSE, critic_raw |-> obj]))

\* Critic._parse_response
critic_parse_response(r, m) == hypothesis_from_json(critic_extract(r), m)

\* Critic.process
CriticProcess(m, r) == critic_parse_response(RunChat(r), m)

(***************************************************************************)
(* agents/architect.py                                                     *)
(***************************************************************************)
EmptyActionPlan ==
    [transferable_mechanisms |-> << >>, technical_roadmap |-> << >>,
     key_metrics_to_track |-> << >>, potential_pitfalls |-> << >>]

ActionPlanFields ==
    {"transferable_mechanisms", "technical_roadmap", "key_metrics_to_track",
     "potential_pitfalls"}

IsStrList(x) == IsList(x) /\ \A i \in DOMAIN x.v : x.v[i].k = "str"

StrList(x) == [i \in DOMAIN x.v |-> x.v[i].v]

\* ActionPlan.model_validate(d), ActionPlan() on any exception
ActionPlanOf(d) ==
    IF IsDict(d) /\ \A f \in ActionPlanFields : HasKey(d, f) => IsStrList(d.v[f])
    THEN [f \in ActionPlanFields |-> IF HasKey(d, f) THEN StrList(d.v[f]) ELSE << >>]
    ELSE EmptyActionPlan

ResearchReport(h, summary, findings, recommendation, action_plan, props) ==
    [hypothesis |-> h, summary |-> summary, findings |-> findings,
     recommendation |-> recommendation, action_plan |-> action_plan,
     sources |-> << >>, input_query |-> <<"">>, properties |-> props]

\* Architect._create_fallback_report
create_fallback_report(h, reason) ==
    ResearchReport(h, <<"Automated synthesis failed.", reason>>,
                   << <<"The system could not parse the Architect's response.">>,
                      <<"Please review the raw logs or the Critic's evaluation directly.">> >>,
                   "Manual review required.", EmptyActionPlan,
                   [fallback |-> JBool(TRUE), fallback_triggered |-> JBool(TRUE),
                    error |-> JStr(reason)])

\* the balanced-brace scan: the index of the "}" that closes the first "{", or 0
\* when the text ends first
RECURSIVE BraceScan(_, _, _, _, _, _)
BraceScan(s, i, depth, in_string, escape, quote_char) ==
    IF i > Len(s) THEN 0
    ELSE LET c == s[i]
         IN  IF escape THEN BraceScan(s, i + 1, depth, in_string, FALSE, quote_char)
             ELSE IF in_string /\ c = "bs"
                  THEN BraceScan(s, i + 1, depth, in_string, TRUE, quote_char)
             ELSE IF ~in_string
                  THEN IF c = "{" THEN BraceScan(s, i + 1, depth + 1, FALSE, FALSE, quote_char)
                       ELSE IF c = "}"
                            THEN IF depth - 1 = 0 THEN i
                                 ELSE BraceScan(s, i + 1, depth - 1, FALSE, FALSE, quote_char)
                       ELSE IF c \in {"sq", "q"}
                            THEN BraceScan(s, i + 1, depth, TRUE, FALSE, c)
                       ELSE BraceScan(s, i + 1, depth, FALSE, FALSE, quote_char)
             ELSE IF c = quote_char
                  THEN BraceScan(s, i + 1, depth, FALSE, FALSE, quote_char)
             ELSE BraceScan(s, i + 1, depth, TRUE, FALSE, quote_char)

OpenBraceToks == {"{"}

\* the candidate json_str cut out of cleaned_text (which contains a "{")
BraceCandidate(cleaned_text) ==
    LET start == Min(Positions(cleaned_text, OpenBraceToks))
        end == BraceScan(cleaned_text, start, 0, FALSE, FALSE, "")
    IN  IF end = 0 THEN From(cleaned_text, start) ELSE SubSeq(cleaned_text, start, end)

\* the smart-quote and non-breaking-space replacements
CleanQuirks(s) ==
    [i \in DOMAIN s |->
        CASE s[i] \in {"lsq", "rsq"} -> "sq"
          [] s[i] \in {"ldq", "rdq"} -> "q"
          [] s[i] = "nbsp" -> "sp"
          [] OTHER -> s[i]]

\* str(x).strip() of a string value; blank strings strip to ""
StrStrip(x) ==
    CASE x.k = "str" -> (IF x.v \in {"", " "} THEN "" ELSE x.v)
      [] OTHER -> "repr"

\* str(data.get(key) or "").strip() or default
TextField(data, key, default) ==
    LET x == Get(data, key, JNull)
        t == IF Truthy(x) THEN StrStrip(x) ELSE ""
    IN  IF t = "" THEN default ELSE t

\* the pieces of a findings string split at commas and newlines, blanks dropped
RECURSIVE SplitFindings(_, _)
SplitFindings(s, cur) ==
    LET piece == IF Strip(cur) = << >> THEN << >> ELSE <<Strip(cur)>>
    IN  IF s = << >> THEN piece
        ELSE IF Head(s) \in {",", "nl"} THEN piece \o SplitFindings(Tail(s), << >>)
        ELSE SplitFindings(Tail(s), Append(cur, Head(s)))

FindingsOf(data) ==
    LET raw == Get(data, "findings", JList(<< >>))
        kept == IF IsList(raw)
                THEN SelectSeq(raw.v, LAMBDA it : it.k # "null" /\ StrStrip(it) # "")
                ELSE << >>
    IN  IF IsList(raw) THEN [i \in DOMAIN kept |-> <<StrStrip(kept[i])>>]
        ELSE IF raw.k = "text" THEN SplitFindings(raw.v, << >>)
        ELSE IF raw.k = "str" THEN (IF StrStrip(raw) = "" THEN << >> ELSE <<<<StrStrip(raw)>>>>)
        ELSE << >>

\* the Architect's extraction: strip, every fence removed, the first balanced
\* {...} block cut out, quirks cleaned, json.loads
architect_extract(r) ==
    LET content == Strip(r.toks)
        cleaned_text == Strip(SubAllFence(SubAllJsonFence(content)))
    IN  IF content = << >> \/ Positions(cleaned_text, OpenBraceToks) = {} THEN NoJson
        ELSE JsonLoads(CleanQuirks(BraceCandidate(cleaned_text)), r.obj)

\* Architect._parse_response after the extraction: the report built from the
\* loaded value
report_from_json(parsed, h) ==
    LET data == parsed.val
        findings == FindingsOf(data)
    IN  IF ~parsed.ok THEN create_fallback_report(h, "JSON decode error")
        ELSE IF ~IsDict(data) THEN create_fallback_report(h, "Response is not a JSON object.")
        ELSE ResearchReport(h,
                 <<TextField(data, "summary", "Summary generation failed.")>>,
                 IF findings # << >> THEN findings
                 ELSE << <<"No structured findings extracted.">> >>,
                 TextField(data, "recommendation", "No recommendation provided."),
                 ActionPlanOf(Get(data, "action_plan", JNull)),
                 [architect_raw |-> data])

\* Architect._parse_response
architect_parse_response(r, h) ==
    LET content == Strip(r.toks)
        cleaned_text == Strip(SubAllFence(SubAllJsonFence(content)))
    IN  IF content = << >> THEN create_fallback_report(h, "No response from LLM.")
        ELSE IF Positions(cleaned_text, OpenBraceToks) = {}
             THEN create_fallback_report(h, "No JSON object found.")
        ELSE report_from_json(architect_extract(r), h)

\* Architect.process
ArchitectProcess(h, r) == architect_parse_response(RunChat(r), h)

(***************************************************************************)
(* core/schema.py: model_dump(mode="json") and model_validate              *)
(***************************************************************************)
\* the ISO-8601 text of a datetime
IsoFormat(t) == JStr(<<"iso", t>>)

\* a value of type Any in a properties dict, serialized in JSON mode: a tuple
\* becomes a list and a datetime its ISO text; JSON values stay as they are
DumpAny(x) ==
    CASE x.k = "tuple" -> JList(x.v)
      [] x.k = "datetime" -> IsoFormat(x.v)
      [] OTHER -> x

\* variant: an edge mapping is written as the text of the tuple
DumpPair_AsText(pair) == JStr(pair)

\* one (edge_a, edge_b) tuple of edge_mappings: JSON has no tuples
DumpPair(pair) == JList(<<JStr(pair[1]), JStr(pair[2])>>)

\* Optional[str]: None is written as null
DumpOptStr(x) == IF x = NoOntology THEN JNull ELSE JStr(x)

DumpStrList(l) == JList([i \in DOMAIN l |-> JStr(l[i])])

\* LogicalPropertyGraph.model_dump(mode="json")
GraphDump(g) ==
    JDict([nodes |-> JList([i \in DOMAIN g.nodes |->
                              JDict([id |-> JStr(g.nodes[i].id),
                                     label |-> JStr(g.nodes[i].label),
                                     node_type |-> JStr(g.nodes[i].node_type)])]),
           edges |-> JList([i \in DOMAIN g.edges |->
                              JDict([source |-> JStr(g.edges[i].source),
                                     target |-> JStr(g.edges[i].target),
                                     relation |-> JStr(g.edges[i].relation)])])])

NodeMatchDump(nm) ==
    JDict([source_id |-> JStr(nm.source_id), target_id |-> JStr(nm.target_id),
           reasoning |-> JStr(nm.reasoning),
           source_ontology |-> DumpOptStr(nm.source_ontology),
           target_ontology |-> DumpOptStr(nm.target_ontology)])

\* AnalogyMapping.model_dump(mode="json")
MappingDump(m) ==
    JDict([graph_a_id |-> JStr(m.graph_a_id), graph_b_id |-> JStr(m.graph_b_id),
           node_matches |-> JList([i \in DOMAIN m.node_matches |->
                                     NodeMatchDump(m.node_matches[i])]),
           edge_mappings |-> JList([i \in DOMAIN m.edge_mappings |->
                                      DumpPair(m.edge_mappings[i])]),
           score |-> JNum(m.score), explanation |-> JStr(m.explanation)])

\* AnalogyMapping.model_dump(): as in JSON mode, but the pairs of edge_mappings
\* stay tuples
MappingModelDump(m) ==
    [MappingDump(m) EXCEPT
        !.v["edge_mappings"] =
            JList([i \in DOMAIN m.edge_mappings |->
                     [k |-> "tuple",
                      v |-> <<JStr(m.edge_mappings[i][1]), JStr(m.edge_mappings[i][2])>>]])]

\* ValidatedHypothesis.model_dump(mode="json"); the properties the pipeline sets
\* hold JSON values only
HypothesisDump(h) ==
    JDict([mapping |-> MappingDump(h.mapping), is_consistent |-> JBool(h.is_consistent),
           issues |-> DumpStrList(h.issues), confidence |-> JNum(h.confidence),
           properties |-> JDict(h.properties)])

\* ResearchReport.model_dump(mode="json")
ReportDump(r) ==
    JDict([hypothesis |-> HypothesisDump(r.hypothesis), summary |-> JStr(r.summary),
           findings |-> DumpStrList(r.findings), recommendation |-> JStr(r.recommendation),
           action_plan |-> JDict([f \in ActionPlanFields |-> DumpStrList(r.action_plan[f])]),
           sources |-> DumpStrList(r.sources), input_query |-> JStr(r.input_query),
           properties |-> JDict([f \in DOMAIN r.properties |-> DumpAny(r.properties[f])])])

\* MemoryMetadata.model_dump(mode="json")
MetadataDump(md) ==
    JDict([stored_at |-> IsoFormat(md.stored_at), frequency |-> JNum(md.frequency)])

\* ValidatedHypothesis.model_validate(obj): ok = FALSE stands for ValidationError
HypothesisValidate(obj) ==
    LET good == /\ IsDict(obj)
                /\ HasKey(obj, "mapping") /\ IsDict(obj.v["mapping"])
                /\ HasKey(obj.v["mapping"], "graph_a_id")
                /\ HasKey(obj.v["mapping"], "graph_b_id")
                /\ AnalogyMappingValidate(obj.v["mapping"]).ok
                /\ HasKey(obj, "is_consistent") /\ obj.v["is_consistent"].k = "bool"
                /\ IsStrList(Get(obj, "issues", JList(<< >>)))
                /\ Get(obj, "confidence", JNum(0)).k = "num"
                /\ Get(obj, "confidence", JNum(0)).v >= 0
                /\ Get(obj, "confidence", JNum(0)).v <= 100
                /\ IsDict(Get(obj, "properties", EmptyDict))
    IN  IF good
        THEN [ok |-> TRUE,
              val |-> ValidatedHypothesis(AnalogyMappingValidate(obj.v["mapping"]).val,
                                          obj.v["is_consistent"].v,
                                          StrList(Get(obj, "issues", JList(<< >>))),
                                          Get(obj, "confidence", JNum(0)).v,
                                          Get(obj, "properties", EmptyDict).v)]
        ELSE [ok |-> FALSE, val |-> None]

\* ResearchReport.model_validate(obj): ok = FALSE stands for ValidationError
ReportValidate(obj) ==
    LET ap == Get(obj, "action_plan", EmptyDict)
        good == /\ IsDict(obj)
                /\ HasKey(obj, "hypothesis") /\ HypothesisValidate(obj.v["hypothesis"]).ok
                /\ \A f \in {"summary", "recommendation", "input_query"} :
                     Get(obj, f, JStr("")).k = "str"
                /\ \A f \in {"findings", "sources"} : IsStrList(Get(obj, f, JList(<< >>)))
                /\ IsDict(ap) /\ \A f \in ActionPlanFields : HasKey(ap, f) => IsStrList(ap.v[f])
                /\ IsDict(Get(obj, "properties", EmptyDict))
    IN  IF good
        THEN [ok |-> TRUE,
              val |-> [hypothesis |-> HypothesisValidate(obj.v["hypothesis"]).val,
                       summary |-> Get(obj, "summary", JStr("")).v,
                       findings |-> StrList(Get(obj, "findings", JList(<< >>))),
                       recommendation |-> Get(obj, "recommendation", JStr("")).v,
                       action_plan |-> ActionPlanOf(ap),
                       sources |-> StrList(Get(obj, "sources", JList(<< >>))),
                       input_query |-> Get(obj, "input_query", JStr("")).v,
                       properties |-> Get(obj, "properties", EmptyDict).v]]
        ELSE [ok |-> FALSE, val |-> None]

\* MemoryMetadata.model_validate(obj): stored_at is parsed from its ISO text
MetadataValidate(obj) ==
    LET fr == Get(obj, "frequency", JNum(0))
        good == /\ IsDict(obj)
                /\ HasKey(obj, "stored_at") /\ obj.v["stored_at"].k = "str"
                /\ fr.k = "num" /\ fr.v >= 0
    IN  IF good
        THEN [ok |-> TRUE, val |-> [stored_at |-> obj.v["stored_at"].v[2], frequency |-> fr.v]]
        ELSE [ok |-> FALSE, val |-> None]

(***************************************************************************)
(* agents/librarian.py                                                     *)
(***************************************************************************)
\* the memory file: absent, a text json.loads rejects, or the JSON value its
\* text encodes
MissingFile == [k |-> "missing"]

GarbageFile == [k |-> "garbage"]

\* variant: the entries that are not dicts are dropped when the file is read
load_memory_DictsOnly(file) ==
    IF file.k \in {"missing", "garbage"} THEN << >>
    ELSE IF ~IsList(file) THEN << >>
    ELSE SelectSeq(file.v, LAMBDA e : IsDict(e))

\* Librarian._load_memory: [] when the file is missing, is not JSON or is not a list
load_memory(file) ==
    IF file.k \in {"missing", "garbage"} THEN << >>
    ELSE IF ~IsList(file) THEN << >>
    ELSE file.v

\* Librarian._save_memory: the file now holds the JSON text of the entries
save_memory(es) == JList(es)

\* the entry store_report appends: the report and fresh metadata, both serialized
NewEntry(rep, now) ==
    JDict([report |-> ReportDump(rep),
           metadata |-> MetadataDump([stored_at |-> now, frequency |-> 0])])

\* Librarian.store_report, load to save
StoreReport(file, rep, now) == save_memory(Append(load_memory(file), NewEntry(rep, now)))

\* the entries get_all_reports and search_analogies keep: dicts whose report and
\* metadata are dicts that validate
Readable(entry) ==
    /\ IsDict(entry)
    /\ IsDict(Get(entry, "report", JNull)) /\ IsDict(Get(entry, "metadata", JNull))
    /\ ReportValidate(entry.v["report"]).ok /\ MetadataValidate(entry.v["metadata"]).ok

ReadEntry(entry) ==
    <<ReportValidate(entry.v["report"]).val, MetadataValidate(entry.v["metadata"]).val>>

\* Librarian.get_all_reports: (report, metadata) pairs in the order of the file
get_all_reports(file) ==
    LET kept == SelectSeq(load_memory(file), LAMBDA e : Readable(e))
    IN  [i \in DOMAIN kept |-> ReadEntry(kept[i])]

\* the pieces of text search_analogies looks into: those of the summary, the
\* recommendation, the mapping's explanation and the findings
Searchable(rep) ==
    Range(rep.summary) \cup {rep.recommendation, rep.hypothesis.mapping.explanation}
    \cup UNION {Range(rep.findings[i]) : i \in DOMAIN rep.findings}

\* Librarian.search_analogies: [] for an empty query or an empty memory, else the
\* readable entries one of whose texts holds the query or one of its words
search_analogies(file, query_words) ==
    LET kept == SelectSeq(load_memory(file),
                          LAMBDA e : Readable(e)
                                     /\ Range(query_words) \cap Searchable(ReadEntry(e)[1]) # {})
    IN  IF query_words = << >> THEN << >> ELSE [i \in DOMAIN kept |-> ReadEntry(kept[i])]

(***************************************************************************)
(* LLM replies: the shapes a reply text can take around a JSON object      *)
(***************************************************************************)
NoObj == EmptyDict

Plain(o) == [toks |-> <<"{", "M", "}">>, obj |-> o]

Fenced(o) == [toks |-> <<"FJ", "nl", "{", "M", "}", "nl", "F">>, obj |-> o]

PreambleFenced(o) ==
    [toks |-> <<"w", "nl", "FJ", "nl", "{", "M", "}", "nl", "F">>, obj |-> o]

TrailingProse(o) == [toks |-> <<"{", "M", "}", "sp", "w">>, obj |-> o]

ArrayOfObject(o) == [toks |-> <<"[", "{", "M", "}", "]">>, obj |-> o]

UnbalancedOpen(o) == [toks |-> <<"{", "M">>, obj |-> o]

UnbalancedClose(o) == [toks |-> <<"{", "M", "}", "}">>, obj |-> o]

EmptyReply == [toks |-> << >>, obj |-> NoObj]

BlankReply == [toks |-> <<"sp", "nl">>, obj |-> NoObj]

ProseReply == [toks |-> <<"w", "sp", "w">>, obj |-> NoObj]

ArrayReply == [toks |-> <<"[", "1", "]">>, obj |-> NoObj]

OpenBraceReply == [toks |-> <<"{">>, obj |-> NoObj]

\* the malformed replies of the specification's list: empty string, non-JSON
\* text, a JSON array instead of an object, unbalanced braces
MalformedReplies(o) ==
    {EmptyReply, ProseReply, ArrayReply, ArrayOfObject(o), OpenBraceReply, UnbalancedOpen(o)}

(***************************************************************************)
(* Reply contents                                                          *)
(***************************************************************************)
NodeObj(id, label, type) ==
    JDict([id |-> JStr(id), label |-> JText(label), node_type |-> type])

EdgeObj(src, tgt, rel) ==
    JDict([source |-> JStr(src), target |-> JStr(tgt), relation |-> JStr(rel)])

GraphObj1 ==
    JDict([nodes |-> JList(<<NodeObj("n1", <<"a", " ", "b">>, JStr("STRUCTURE")),
                            NodeObj("n2", <<"b">>, JStr("FUNCTION"))>>),
           edges |-> JList(<<EdgeObj("n1", "n2", "causes")>>)])

GraphObj2 ==
    JDict([nodes |-> JList(<<NodeObj("n1", <<"b", "_", "a">>, JStr("FUNCTION")),
                            NodeObj("n2", <<"A", "b">>, JStr("concept"))>>)])

NodesOnly(x) == JDict([nodes |-> x])

\* objects that are not valid graphs
BadGraphObjs ==
    {NodesOnly(JNull), NodesOnly(JNum(1)), NodesOnly(JStr("abc")),
     JDict([edges |-> JNull]), JDict([edges |-> JNum(1)]), JDict([edges |-> JStr("abc")]),
     NodesOnly(JList(<<JDict([label |-> JText(<<"a">>)])>>)),
     NodesOnly(JList(<<JDict([id |-> JStr("n1")])>>)),
     NodesOnly(JList(<<JNum(1)>>))}

\* objects whose node_type is not a string
OddTypeGraphObjs ==
    {NodesOnly(JList(<<NodeObj("n1", <<"a">>, JNum(1))>>)),
     NodesOnly(JList(<<NodeObj("n1", <<"a">>, JNull)>>)),
     NodesOnly(JList(<<NodeObj("n1", <<"a">>, JList(<<JStr("STRUCTURE")>>))>>))}

MatchObj(src, tgt, so, to) ==
    JDict([source_id |-> JStr(src), target_id |-> JStr(tgt), reasoning |-> JStr("r"),
           source_ontology |-> so, target_ontology |-> to])

MapObj(matches, edges, score) ==
    JDict([node_matches |-> JList(matches), edge_mappings |-> edges, score |-> JNum(score),
           explanation |-> JStr("analogy")])

PairsOk == JList(<<JList(<<JStr("e1"), JStr("e2")>>)>>)

PairsBad == JList(<<JDict([invalid |-> JBool(TRUE)])>>)

MapObjAligned ==
    MapObj(<<MatchObj("n1", "n1", JNull, JNull), MatchObj("n2", "n2", JNull, JNull)>>,
           PairsOk, 85)

MapObjCrossed ==
    MapObj(<<MatchObj("n1", "n2", JStr("STRUCTURE"), JStr("FUNCTION"))>>, PairsOk, 60)

MapObjDangling ==
    MapObj(<<MatchObj("n9", "n1", JNull, JNull), MatchObj("n2", "n2", JNull, JNull)>>,
           PairsBad, 70)

MapObjBadScore == MapObj(<< >>, PairsOk, 150)

CriticObj(cons, issues, conf) ==
    JDict([is_consistent |-> cons, issues |-> JList(issues), confidence |-> conf])

CriticObjs ==
    {CriticObj(JBool(TRUE), << >>, JNum(92)),
     CriticObj(JBool(TRUE), << >>, JNum(80)),
     CriticObj(JBool(TRUE), <<JStr("Role mismatch")>>, JNum(50)),
     CriticObj(JBool(FALSE), <<JStr("Role mismatch")>>, JNum(90)),
     CriticObj(JBool(TRUE), << >>, JNum(150))}

ReportObj1 ==
    JDict([summary |-> JStr("Great analogy"),
           findings |-> JList(<<JStr("F1"), JStr("F2")>>),
           recommendation |-> JStr("Proceed"),
           action_plan |-> JDict([transferable_mechanisms |-> JList(<<JStr("PID")>>)])])

ReportObj2 ==
    JDict([summary |-> JStr(" "), findings |-> JText(<<"f1", ",", "sp", "f2", "nl">>),
           action_plan |-> JDict([technical_roadmap |-> JStr("step")])])

\* the replies the LLM gives in a pipeline run
ScoutReplies ==
    {Plain(GraphObj1), Plain(GraphObj2), PreambleFenced(GraphObj1), EmptyReply,
     Plain(NodesOnly(JNull))}

MatcherReplies ==
    {Plain(MapObjAligned), Fenced(MapObjCrossed), Plain(MapObjDangling),
     Plain(MapObjBadScore), ProseReply}

CriticReplies == {Plain(o) : o \in CriticObjs} \cup {EmptyReply, ProseReply}

ArchitectReplies == {Plain(ReportObj1), TrailingProse(ReportObj2), EmptyReply}

\* run_pipeline's text_source / text_target: every caller passes a non-blank text
DomainText == <<"w">>

\* Scout.process inputs: a description (also padded), the empty text, blank ones
TextInputs == {DomainText, <<"sp", "w">>, << >>, <<"sp">>, <<"sp", "nl">>}

(***************************************************************************)
(* app.py: run_pipeline                                                    *)
(***************************************************************************)
\* the confidence below which the driver refines (0.8)
REFINE_THRESHOLD == 80

\* variant: a confidence of exactly the threshold also refines
NeedsRefinement_Inclusive(h) == (~h.is_consistent) \/ (h.confidence <= REFINE_THRESHOLD)

\* the refine condition
NeedsRefinement(h) == (~h.is_consistent) \/ (h.confidence < REFINE_THRESHOLD)

\* variant: the gate hypothesis keeps the mapping's score as its confidence
GateHypothesis_KeepScore(m, issues) == ValidatedHypothesis(m, FALSE, issues, m.score, NoProperties)

\* the hypothesis the driver builds itself when the ontology gate fails
GateHypothesis(m, issues) == ValidatedHypothesis(m, FALSE, issues, 0, NoProperties)

Bump(c, a) == [c EXCEPT ![a] = @ + 1]

\* the callers of the Librarian
Callers == {1, 2}

\* no configuration built yet, no store_report in progress
OutsideIdle ==
    /\ session = None
    /\ llm_config = None
    /\ lpc = [c \in Callers |-> "idle"]
    /\ entries = [c \in Callers |-> << >>]
    /\ clock = 1

Init ==
    /\ pc = "scout_a"
    /\ text_source = DomainText
    /\ text_target = DomainText
    /\ graph_a = None /\ graph_b = None
    /\ mapping = None /\ refined_mapping = None
    /\ ontology_ok = TRUE /\ ontology_issues = << >>
    /\ ref_ontology_ok = TRUE /\ ref_ontology_issues = << >>
    /\ hypothesis = None /\ final_hypothesis = None
    /\ report = None
    /\ calls = [scout |-> 0, matcher |-> 0, critic |-> 0, architect |-> 0]
    /\ llm_calls = 0
    /\ matcher_inputs = << >>
    /\ critic_replies = << >>
    /\ exc = "none"
    /\ memory = MissingFile
    /\ OutsideIdle
    /\ agent = "driver" /\ reply = EmptyReply /\ result = None

\* graph_a = scout.process(text_source)
ScoutA ==
    /\ pc = "scout_a"
    /\ \E r \in ScoutReplies :
         LET p == ScoutProcess(text_source, r)
         IN  /\ calls' = Bump(calls, "scout")
             /\ llm_calls' = llm_calls + p.llm
             /\ IF p.out.raised
                THEN /\ pc' = "raised" /\ exc' = p.out.exc /\ graph_a' = graph_a
                ELSE /\ pc' = "scout_b" /\ exc' = exc /\ graph_a' = p.out.value
    /\ UNCHANGED <<outside, text_source, text_target, graph_b, mapping, ontology_ok, ontology_issues,
                   hypothesis, refined_mapping, ref_ontology_ok, ref_ontology_issues,
                   final_hypothesis, report, matcher_inputs, critic_replies, memory,
                   agent, reply, result>>

\* graph_b = scout.process(text_target)
ScoutB ==
    /\ pc = "scout_b"
    /\ \E r \in ScoutReplies :
         LET p == ScoutProcess(text_target, r)
         IN  /\ calls' = Bump(calls, "scout")
             /\ llm_calls' = llm_calls + p.llm
             /\ IF p.out.raised
                THEN /\ pc' = "raised" /\ exc' = p.out.exc /\ graph_b' = graph_b
                ELSE /\ pc' = "match" /\ exc' = exc /\ graph_b' = p.out.value
    /\ UNCHANGED <<outside, text_source, text_target, graph_a, mapping, ontology_ok, ontology_issues,
                   hypothesis, refined_mapping, ref_ontology_ok, ref_ontology_issues,
                   final_hypothesis, report, matcher_inputs, critic_replies, memory,
                   agent, reply, result>>

\* variant: the first mapping goes to the Critic without the ontology gate
Match_SkipGate ==
    /\ pc = "match"
    /\ \E r \in MatcherReplies :
         LET data == MatcherInput(graph_a, graph_b)
             p == MatcherProcess(data, r)
         IN  /\ matcher_inputs' = Append(matcher_inputs, data)
             /\ llm_calls' = llm_calls + p.llm
             /\ IF p.out.raised
                THEN /\ pc' = "raised" /\ exc' = p.out.exc /\ mapping' = mapping
                ELSE /\ pc' = "critique" /\ exc' = exc /\ mapping' = p.out.value
    /\ calls' = Bump(calls, "matcher")
    /\ UNCHANGED <<outside, text_source, text_target, graph_a, graph_b, ontology_ok, ontology_issues,
                   hypothesis, refined_mapping, ref_ontology_ok, ref_ontology_issues,
                   final_hypothesis, report, critic_replies, memory,
                   agent, reply, result>>

\* mapping = matcher.process({"graph_a": graph_a, "graph_b": graph_b})
Match ==
    /\ pc = "match"
    /\ \E r \in MatcherReplies :
         LET data == MatcherInput(graph_a, graph_b)
             p == MatcherProcess(data, r)
         IN  /\ matcher_inputs' = Append(matcher_inputs, data)
             /\ llm_calls' = llm_calls + p.llm
             /\ IF p.out.raised
                THEN /\ pc' = "raised" /\ exc' = p.out.exc /\ mapping' = mapping
                ELSE /\ pc' = "gate" /\ exc' = exc /\ mapping' = p.out.value
    /\ calls' = Bump(calls, "matcher")
    /\ UNCHANGED <<outside, text_source, text_target, graph_a, graph_b, ontology_ok, ontology_issues,
                   hypothesis, refined_mapping, ref_ontology_ok, ref_ontology_issues,
                   final_hypothesis, report, critic_replies, memory,
                   agent, reply, result>>

\* the ontology gate on the first mapping; on failure the hypothesis is built
\* without the Critic
Gate ==
    /\ pc = "gate"
    /\ LET g == check_ontology_alignment(mapping, graph_a, graph_b)
       IN  /\ ontology_ok' = g.ok
           /\ ontology_issues' = g.issues
           /\ IF ~g.ok
              THEN /\ hypothesis' = GateHypothesis(mapping, g.issues)
                   /\ pc' = "decide"
              ELSE /\ hypothesis' = hypothesis
                   /\ pc' = "critique"
    /\ UNCHANGED <<outside, text_source, text_target, graph_a, graph_b, mapping, refined_mapping,
                   ref_ontology_ok, ref_ontology_issues, final_hypothesis, report, calls,
                   llm_calls, matcher_inputs, critic_replies, exc, memory,
                   agent, reply, result>>

\* hypothesis = critic.process(mapping)
Critique ==
    /\ pc = "critique"
    /\ \E r \in CriticReplies :
         LET out == CriticProcess(mapping, r)
         IN  /\ critic_replies' = Append(critic_replies, r)
             /\ IF out.raised
                THEN /\ pc' = "raised" /\ exc' = out.exc /\ hypothesis' = hypothesis
                ELSE /\ pc' = "decide" /\ exc' = exc /\ hypothesis' = out.value
    /\ calls' = Bump(calls, "critic")
    /\ llm_calls' = llm_calls + 1
    /\ UNCHANGED <<outside, text_source, text_target, graph_a, graph_b, mapping, ontology_ok,
                   ontology_issues, refined_mapping, ref_ontology_ok, ref_ontology_issues,
                   final_hypothesis, report, matcher_inputs, memory, agent, reply, result>>

\* the branch not taken into refinement: final_hypothesis = hypothesis
Accept ==
    /\ pc = "decide"
    /\ ~NeedsRefinement(hypothesis)
    /\ final_hypothesis' = hypothesis
    /\ pc' = "synthesize"
    /\ UNCHANGED <<outside, text_source, text_target, graph_a, graph_b, mapping, ontology_ok,
                   ontology_issues, hypothesis, refined_mapping, ref_ontology_ok,
                   ref_ontology_issues, report, calls, llm_calls, matcher_inputs,
                   critic_replies, exc, memory, agent, reply, result>>

\* variant: the refinement call carries the two graphs only
RefineMatch_NoContext ==
    /\ pc = "decide"
    /\ NeedsRefinement(hypothesis)
    /\ \E r \in MatcherReplies :
         LET data == MatcherInput(graph_a, graph_b)
             p == MatcherProcess(data, r)
         IN  /\ matcher_inputs' = Append(matcher_inputs, data)
             /\ llm_calls' = llm_calls + p.llm
             /\ IF p.out.raised
                THEN /\ pc' = "raised" /\ exc' = p.out.exc
                     /\ refined_mapping' = refined_mapping
                ELSE /\ pc' = "ref_gate" /\ exc' = exc
                     /\ refined_mapping' = p.out.value
    /\ calls' = Bump(calls, "matcher")
    /\ UNCHANGED <<outside, text_source, text_target, graph_a, graph_b, mapping, ontology_ok,
                   ontology_issues, hypothesis, ref_ontology_ok, ref_ontology_issues,
                   final_hypothesis, report, critic_replies, memory,
                   agent, reply, result>>

\* refined_mapping = matcher.process({... previous_mapping, critic_feedback})
RefineMatch ==
    /\ pc = "decide"
    /\ NeedsRefinement(hypothesis)
    /\ \E r \in MatcherReplies :
         LET data == JDict([graph_a |-> graph_a, graph_b |-> graph_b,
                            previous_mapping |-> MappingModelDump(mapping),
                            critic_feedback |-> [is_consistent |-> hypothesis.is_consistent,
                                                 issues |-> hypothesis.issues,
                                                 confidence |-> hypothesis.confidence]])
             p == MatcherProcess(data, r)
         IN  /\ matcher_inputs' = Append(matcher_inputs, data)
             /\ llm_calls' = llm_calls + p.llm
             /\ IF p.out.raised
                THEN /\ pc' = "raised" /\ exc' = p.out.exc
                     /\ refined_mapping' = refined_mapping
                ELSE /\ pc' = "ref_gate" /\ exc' = exc
                     /\ refined_mapping' = p.out.value
    /\ calls' = Bump(calls, "matcher")
    /\ UNCHANGED <<outside, text_source, text_target, graph_a, graph_b, mapping, ontology_ok,
                   ontology_issues, hypothesis, ref_ontology_ok, ref_ontology_issues,
                   final_hypothesis, report, critic_replies, memory,
                   agent, reply, result>>

\* variant: the refined mapping is sent to the Critic whatever the gate says
RefineGate_AlwaysCritic ==
    /\ pc = "ref_gate"
    /\ LET g == check_ontology_alignment(refined_mapping, graph_a, graph_b)
       IN  /\ ref_ontology_ok' = g.ok
           /\ ref_ontology_issues' = g.issues
    /\ pc' = "ref_critique"
    /\ UNCHANGED <<outside, text_source, text_target, graph_a, graph_b, mapping, ontology_ok,
                   ontology_issues, hypothesis, refined_mapping, final_hypothesis, report,
                   calls, llm_calls, matcher_inputs, critic_replies, exc, memory,
                   agent, reply, result>>

\* the ontology gate on the refined mapping
RefineGate ==
    /\ pc = "ref_gate"
    /\ LET g == check_ontology_alignment(refined_mapping, graph_a, graph_b)
       IN  /\ ref_ontology_ok' = g.ok
           /\ ref_ontology_issues' = g.issues
           /\ IF ~g.ok
              THEN /\ final_hypothesis' = GateHypothesis(refined_mapping, g.issues)
                   /\ pc' = "synthesize"
              ELSE /\ final_hypothesis' = final_hypothesis
                   /\ pc' = "ref_critique"
    /\ UNCHANGED <<outside, text_source, text_target, graph_a, graph_b, mapping, ontology_ok,
                   ontology_issues, hypothesis, refined_mapping, report, calls, llm_calls,
                   matcher_inputs, critic_replies, exc, memory, agent, reply, result>>

\* variant: the refinement is a loop, repeated while the hypothesis needs it
RefineCritique_Loop ==
    /\ pc = "ref_critique"
    /\ \E r \in CriticReplies :
         LET out == CriticProcess(refined_mapping, r)
         IN  /\ critic_replies' = Append(critic_replies, r)
             /\ IF out.raised
                THEN /\ pc' = "raised" /\ exc' = out.exc
                     /\ UNCHANGED <<final_hypothesis, hypothesis, mapping>>
                ELSE IF NeedsRefinement(out.value)
                THEN /\ pc' = "decide" /\ exc' = exc
                     /\ hypothesis' = out.value /\ mapping' = refined_mapping
                     /\ final_hypothesis' = final_hypothesis
                ELSE /\ pc' = "synthesize" /\ exc' = exc
                     /\ final_hypothesis' = out.value
                     /\ UNCHANGED <<hypothesis, mapping>>
    /\ calls' = Bump(calls, "critic")
    /\ llm_calls' = llm_calls + 1
    /\ UNCHANGED <<outside, text_source, text_target, graph_a, graph_b, ontology_ok,
                   ontology_issues, refined_mapping, ref_ontology_ok,
                   ref_ontology_issues, report, matcher_inputs, memory, agent, reply, result>>

\* final_hypothesis = critic.process(refined_mapping)
RefineCritique ==
    /\ pc = "ref_critique"
    /\ \E r \in CriticReplies :
         LET out == CriticProcess(refined_mapping, r)
         IN  /\ critic_replies' = Append(critic_replies, r)
             /\ IF out.raised
                THEN /\ pc' = "raised" /\ exc' = out.exc
                     /\ final_hypothesis' = final_hypothesis
                ELSE /\ pc' = "synthesize" /\ exc' = exc
                     /\ final_hypothesis' = out.value
    /\ calls' = Bump(calls, "critic")
    /\ llm_calls' = llm_calls + 1
    /\ UNCHANGED <<outside, text_source, text_target, graph_a, graph_b, mapping, ontology_ok,
                   ontology_issues, hypothesis, refined_mapping, ref_ontology_ok,
                   ref_ontology_issues, report, matcher_inputs, memory, agent, reply, result>>

\* report = architect.process(final_hypothesis)
Synthesize ==
    /\ pc = "synthesize"
    /\ \E r \in ArchitectReplies : report' = ArchitectProcess(final_hypothesis, r)
    /\ calls' = Bump(calls, "architect")
    /\ llm_calls' = llm_calls + 1
    /\ pc' = "persist"
    /\ UNCHANGED <<outside, text_source, text_target, graph_a, graph_b, mapping, ontology_ok,
                   ontology_issues, hypothesis, refined_mapping, ref_ontology_ok,
                   ref_ontology_issues, final_hypothesis, matcher_inputs, critic_replies,
                   exc, memory, agent, reply, result>>

\* collect_sources returns the URLs found, or [] on any failure
SourceLists == {<< >>, <<"https://example.org/a">>}

\* variant: the driver replaces the properties instead of adding to them
Persist_FreshProperties ==
    /\ pc = "persist"
    /\ \E srcs \in SourceLists :
         LET props == [graph_a |-> GraphDump(graph_a),
                       graph_b |-> GraphDump(graph_b),
                       stored_at |-> IsoFormat(clock)]
             rep == [report EXCEPT !.properties = props,
                                   !.input_query = text_source \o <<" | ">> \o text_target,
                                   !.sources = srcs]
         IN  /\ report' = rep
             /\ memory' = StoreReport(memory, rep, clock)
    /\ pc' = "done"
    /\ UNCHANGED <<outside, text_source, text_target, graph_a, graph_b, mapping, ontology_ok,
                   ontology_issues, hypothesis, refined_mapping, ref_ontology_ok,
                   ref_ontology_issues, final_hypothesis, calls, llm_calls, matcher_inputs,
                   critic_replies, exc, agent, reply, result>>

\* the tail of run_pipeline: annotate the report, collect sources, store it
Persist ==
    /\ pc = "persist"
    /\ \E srcs \in SourceLists :
         LET props == [graph_a |-> GraphDump(graph_a),
                       graph_b |-> GraphDump(graph_b),
                       stored_at |-> IsoFormat(clock)] @@ report.properties
             rep == [report EXCEPT !.properties = props,
                                   !.input_query = text_source \o <<" | ">> \o text_target,
                                   !.sources = srcs]
         IN  /\ report' = rep
             /\ memory' = StoreReport(memory, rep, clock)
    /\ pc' = "done"
    /\ UNCHANGED <<outside, text_source, text_target, graph_a, graph_b, mapping, ontology_ok,
                   ontology_issues, hypothesis, refined_mapping, ref_ontology_ok,
                   ref_ontology_issues, final_hypothesis, calls, llm_calls, matcher_inputs,
                   critic_replies, exc, agent, reply, result>>

Next ==
    \/ ScoutA
    \/ ScoutB
    \/ Match
    \/ Gate
    \/ Critique
    \/ Accept
    \/ RefineMatch
    \/ RefineGate
    \/ RefineCritique
    \/ Synthesize
    \/ Persist

Spec == Init /\ [][Next]_vars

(***************************************************************************)
(* check_ontology_alignment on its own: inputs drawn from bounded sets      *)
(***************************************************************************)
\* longest node_matches list tried
MaxMatches == 3

Node(id, type) == [id |-> id, label |-> <<"A">>, node_type |-> type]

AlignGraphsA ==
    {[nodes |-> <<Node("a1", "STRUCTURE"), Node("a2", "FUNCTION")>>, edges |-> << >>],
     [nodes |-> <<Node("a1", "FUNCTION"), Node("a2", "ATTRIBUTE")>>, edges |-> << >>],
     [nodes |-> <<Node("a1", "STRUCTURE"), Node("a1", "FUNCTION"), Node("a2", "STRUCTURE")>>,
      edges |-> << >>]}

AlignGraphsB ==
    {[nodes |-> <<Node("b1", "STRUCTURE"), Node("b2", "FUNCTION")>>, edges |-> << >>],
     [nodes |-> <<Node("b1", "ATTRIBUTE"), Node("b2", "STRUCTURE")>>, edges |-> << >>]}

AlignMatches ==
    {[source_id |-> src, target_id |-> tgt, reasoning |-> "r",
      source_ontology |-> NoOntology, target_ontology |-> NoOntology] :
        src \in {"a1", "a2", "ghost"}, tgt \in {"b1", "b2", "ghost"}}

AlignMappings ==
    {[graph_a_id |-> "ga", graph_b_id |-> "gb", node_matches |-> ms,
      edge_mappings |-> << >>, score |-> 50, explanation |-> "analogy"] :
        ms \in UNION {[1..n -> AlignMatches] : n \in 0..MaxMatches}}

InitAlign ==
    /\ pc = "align_call"
    /\ mapping \in AlignMappings
    /\ graph_a \in AlignGraphsA
    /\ graph_b \in AlignGraphsB
    /\ text_source = DomainText /\ text_target = DomainText
    /\ refined_mapping = None
    /\ ontology_ok = TRUE /\ ontology_issues = << >>
    /\ ref_ontology_ok = TRUE /\ ref_ontology_issues = << >>
    /\ hypothesis = None /\ final_hypothesis = None
    /\ report = None
    /\ calls = [scout |-> 0, matcher |-> 0, critic |-> 0, architect |-> 0]
    /\ llm_calls = 0
    /\ matcher_inputs = << >>
    /\ critic_replies = << >>
    /\ exc = "none"
    /\ memory = MissingFile
    /\ OutsideIdle
    /\ agent = "ontology" /\ reply = EmptyReply /\ result = None

\* ok, issues = check_ontology_alignment(mapping, graph_a, graph_b)
CheckAlignment ==
    /\ pc = "align_call"
    /\ result' = check_ontology_alignment(mapping, graph_a, graph_b)
    /\ pc' = "align_done"
    /\ UNCHANGED <<outside, text_source, text_target, graph_a, graph_b, mapping, ontology_ok,
                   ontology_issues, hypothesis, refined_mapping, ref_ontology_ok,
                   ref_ontology_issues, final_hypothesis, report, calls, llm_calls,
                   matcher_inputs, critic_replies, exc, memory, agent, reply>>

NextAlign == CheckAlignment

SpecAlign == InitAlign /\ [][NextAlign]_vars

(***************************************************************************)
(* Each agent's process on its own: one call, any reply                    *)
(***************************************************************************)
Agents == {"Scout", "Matcher", "Critic", "Architect"}

Wrappers(o) ==
    {Plain(o), Fenced(o), PreambleFenced(o), TrailingProse(o), ArrayOfObject(o),
     UnbalancedOpen(o), UnbalancedClose(o)}

BareReplies == {EmptyReply, BlankReply, ProseReply, ArrayReply, OpenBraceReply}

UnitCriticObjs ==
    CriticObjs \cup
    {JDict([confidence |-> JStr("high")]),
     JDict([is_consistent |-> JStr("false"), issues |-> JStr("bad"), confidence |-> JNum(40)]),
     JDict([is_consistent |-> JNull, confidence |-> JNum(0 - 10)])}

\* Scout reply objects with a node that has no node_type, a lower-case one, an
\* object as node_type, and a valid node after a node with an odd node_type
UnitTypeGraphObjs ==
    {NodesOnly(JList(<<JDict([id |-> JStr("n1"), label |-> JText(<<"a">>)])>>)),
     NodesOnly(JList(<<NodeObj("n1", <<"a">>, JStr("function")),
                       NodeObj("n2", <<"b">>, JStr("ATTRIBUTE"))>>)),
     NodesOnly(JList(<<NodeObj("n1", <<"a">>, JDict([t |-> JStr("FUNCTION")]))>>)),
     NodesOnly(JList(<<NodeObj("n1", <<"a">>, JNum(1)),
                       NodeObj("n2", <<"b">>, JStr("FUNCTION"))>>))}

\* Matcher reply objects that differ in edge_mappings only: a list with one
\* malformed element among valid ones, a string, null, and the key absent
UnitMapObjs ==
    {MapObjAligned, MapObjCrossed, MapObjDangling, MapObjBadScore,
     MapObj(<<MatchObj("n1", "n1", JNull, JNull)>>,
            JList(<<JList(<<JStr("e1"), JStr("e2")>>), JList(<<JStr("e1")>>)>>), 70),
     MapObj(<<MatchObj("n1", "n1", JNull, JNull)>>,
            JList(<<JList(<<JStr("e1"), JNum(2)>>)>>), 70),
     MapObj(<<MatchObj("n1", "n1", JNull, JNull)>>, JStr("none"), 70),
     MapObj(<<MatchObj("n1", "n1", JNull, JNull)>>, JNull, 70),
     JDict([node_matches |-> JList(<<MatchObj("n1", "n1", JNull, JNull)>>),
            score |-> JNum(70), explanation |-> JStr("analogy")])}

UnitReplies(a) ==
    BareReplies \cup
    CASE a = "Scout" ->
           UNION {Wrappers(o) : o \in {GraphObj1, GraphObj2}}
           \cup {Plain(o) : o \in BadGraphObjs \cup OddTypeGraphObjs \cup UnitTypeGraphObjs}
      [] a = "Matcher" ->
           UNION {Wrappers(o) : o \in UnitMapObjs}
      [] a = "Critic" -> UNION {Wrappers(o) : o \in UnitCriticObjs}
      [] OTHER -> UNION {Wrappers(o) : o \in {ReportObj1, ReportObj2}}

UnitGraph == parse_graph_response(Plain(GraphObj1)).value

\* the values handed to Matcher.process: the two documented shapes, with graph
\* instances or graph dicts, and values of other shapes
UnitMatcherInputs(ga, gb) ==
    {MatcherInput(ga, gb),
     JDict([graph_a |-> ga, graph_b |-> gb, previous_mapping |-> JNull]),
     JList(<<ga, gb>>),
     JList(<<GraphObj1, GraphObj1>>),
     JList(<<GraphObj1, GraphObj2>>),
     JList(<<ga, gb, ga>>),
     JList(<<ga>>),
     JList(<< >>),
     JList(<<JStr("a"), JStr("b")>>),
     JDict([graph_a |-> ga]),
     JDict([graph_a |-> ga, graph_b |-> JNull]),
     JStr("ab"),
     JNull}

UnitMappings ==
    {FallbackMapping("graph_a", "graph_b"),
     parse_mapping_response(Plain(MapObjAligned), "graph_a", "graph_b"),
     parse_mapping_response(Plain(MapObjCrossed), "graph_a", "graph_b")}

UnitHypotheses ==
    {CriticFallback(FallbackMapping("graph_a", "graph_b")),
     ValidatedHypothesis(parse_mapping_response(Plain(MapObjAligned), "graph_a", "graph_b"),
                         TRUE, << >>, 92, NoProperties)}

InitAgent ==
    /\ pc = "agent_call"
    /\ agent \in Agents
    /\ reply \in UnitReplies(agent)
    /\ text_source \in (IF agent = "Scout" THEN TextInputs ELSE {DomainText})
    /\ text_target = DomainText
    /\ graph_a = (IF agent = "Matcher" THEN UnitGraph ELSE None)
    /\ graph_b = (IF agent = "Matcher" THEN UnitGraph ELSE None)
    /\ mapping \in (IF agent = "Critic" THEN UnitMappings ELSE {None})
    /\ final_hypothesis \in (IF agent = "Architect" THEN UnitHypotheses ELSE {None})
    /\ refined_mapping = None
    /\ ontology_ok = TRUE /\ ontology_issues = << >>
    /\ ref_ontology_ok = TRUE /\ ref_ontology_issues = << >>
    /\ hypothesis = None
    /\ report = None
    /\ calls = [scout |-> 0, matcher |-> 0, critic |-> 0, architect |-> 0]
    /\ llm_calls = 0
    /\ matcher_inputs = << >>
    /\ critic_replies = << >>
    /\ exc = "none"
    /\ memory = MissingFile
    /\ OutsideIdle
    /\ result = None

AgentFrame ==
    UNCHANGED <<outside, text_source, text_target, graph_a, graph_b, mapping, ontology_ok,
                ontology_issues, hypothesis, refined_mapping, ref_ontology_ok,
                ref_ontology_issues, final_hypothesis, report, matcher_inputs,
                critic_replies, exc, memory, agent, reply>>

\* Scout.process(text_source)
ScoutCall ==
    /\ pc = "agent_call" /\ agent = "Scout"
    /\ LET p == ScoutProcess(text_source, reply)
       IN  result' = p.out /\ llm_calls' = llm_calls + p.llm
    /\ calls' = Bump(calls, "scout")
    /\ pc' = "agent_done"
    /\ AgentFrame

\* Matcher.process({"graph_a": graph_a, "graph_b": graph_b})
MatcherCall ==
    /\ pc = "agent_call" /\ agent = "Matcher"
    /\ \E data \in UnitMatcherInputs(graph_a, graph_b) :
         LET p == MatcherProcess(data, reply)
         IN  /\ result' = p.out
             /\ llm_calls' = llm_calls + p.llm
             /\ matcher_inputs' = Append(matcher_inputs, data)
    /\ calls' = Bump(calls, "matcher")
    /\ pc' = "agent_done"
    /\ UNCHANGED <<outside, text_source, text_target, graph_a, graph_b, mapping, ontology_ok,
                   ontology_issues, hypothesis, refined_mapping, ref_ontology_ok,
                   ref_ontology_issues, final_hypothesis, report, critic_replies, exc,
                   memory, agent, reply>>

\* Critic.process(mapping)
CriticCall ==
    /\ pc = "agent_call" /\ agent = "Critic"
    /\ result' = CriticProcess(mapping, reply)
    /\ llm_calls' = llm_calls + 1
    /\ calls' = Bump(calls, "critic")
    /\ pc' = "agent_done"
    /\ AgentFrame

\* Architect.process(final_hypothesis)
ArchitectCall ==
    /\ pc = "agent_call" /\ agent = "Architect"
    /\ result' = Returned(ArchitectProcess(final_hypothesis, reply))
    /\ llm_calls' = llm_calls + 1
    /\ calls' = Bump(calls, "architect")
    /\ pc' = "agent_done"
    /\ AgentFrame

NextAgent ==
    \/ ScoutCall
    \/ MatcherCall
    \/ CriticCall
    \/ ArchitectCall

SpecAgent == InitAgent /\ [][NextAgent]_vars

(***************************************************************************)
(* Scout._to_pascal_case on its own: labels drawn from a bounded set        *)
(***************************************************************************)
\* longest label tried
MaxLabelLen == 5

LabelChars == {"a", "b", "A", "B", " ", "_"}

Labels == UNION {[1..n -> LabelChars] : n \in 0..MaxLabelLen}

InitLabel ==
    /\ pc = "label_call"
    /\ text_source \in Labels
    /\ text_target = << >>
    /\ graph_a = None /\ graph_b = None
    /\ mapping = None /\ refined_mapping = None
    /\ ontology_ok = TRUE /\ ontology_issues = << >>
    /\ ref_ontology_ok = TRUE /\ ref_ontology_issues = << >>
    /\ hypothesis = None /\ final_hypothesis = None
    /\ report = None
    /\ calls = [scout |-> 0, matcher |-> 0, critic |-> 0, architect |-> 0]
    /\ llm_calls = 0
    /\ matcher_inputs = << >>
    /\ critic_replies = << >>
    /\ exc = "none"
    /\ memory = MissingFile
    /\ OutsideIdle
    /\ agent = "label" /\ reply = EmptyReply /\ result = None

\* label = Scout._to_pascal_case(text_source)
PascalCase ==
    /\ pc = "label_call"
    /\ result' = Returned(to_pascal_case(text_source))
    /\ pc' = "label_done"
    /\ UNCHANGED <<outside, text_source, text_target, graph_a, graph_b, mapping, ontology_ok,
                   ontology_issues, hypothesis, refined_mapping, ref_ontology_ok,
                   ref_ontology_issues, final_hypothesis, report, calls, llm_calls,
                   matcher_inputs, critic_replies, exc, memory, agent, reply>>

\* Scout._to_pascal_case applied to its own result; text_target keeps the first result
PascalCaseAgain ==
    /\ pc = "label_done"
    /\ text_target' = result.value
    /\ result' = Returned(to_pascal_case(result.value))
    /\ pc' = "label_again"
    /\ UNCHANGED <<outside, text_source, graph_a, graph_b, mapping, ontology_ok,
                   ontology_issues, hypothesis, refined_mapping, ref_ontology_ok,
                   ref_ontology_issues, final_hypothesis, report, calls, llm_calls,
                   matcher_inputs, critic_replies, exc, memory, agent, reply>>

NextLabel ==
    \/ PascalCase
    \/ PascalCaseAgain

SpecLabel == InitLabel /\ [][NextLabel]_vars

(***************************************************************************)
(* core/config.py and app.py main: the credentials of a Live run, from the  *)
(* sidebar or the environment, then run_pipeline                            *)
(***************************************************************************)
\* a credential is None or a text, given by its characters
Text(chars) == [k |-> "text", v |-> chars]

\* (x or "")
OrEmpty(x) == IF x.k = "none" \/ x.v = << >> THEN << >> ELSE x.v

\* url.rstrip("/")
RECURSIVE RStripSlash(_)
RStripSlash(s) ==
    IF s # << >> /\ s[Len(s)] = "/" THEN RStripSlash(SubSeq(s, 1, Len(s) - 1)) ELSE s

\* build_llm_config: the key and the endpoint of the environment, tested as they are
build_llm_config(env) ==
    IF OrEmpty(env.AZURE_OPENAI_API_KEY) = << >> \/ OrEmpty(env.AZURE_OPENAI_ENDPOINT) = << >>
    THEN Raised("ValueError")
    ELSE Returned([api_key |-> env.AZURE_OPENAI_API_KEY.v,
                   base_url |-> RStripSlash(env.AZURE_OPENAI_ENDPOINT.v) \o <<"/">>])

\* build_llm_config_from_input: the key and the endpoint are stripped first
build_llm_config_from_input(api_key, endpoint) ==
    LET key == Strip(OrEmpty(api_key))
        url == Strip(OrEmpty(endpoint))
    IN  IF key = << >> \/ url = << >>
        THEN Raised("ValueError")
        ELSE Returned([api_key |-> key, base_url |-> RStripSlash(url) \o <<"/">>])

\* _get_live_llm_config: the sidebar when it holds both values, else the environment
get_live_llm_config(state) ==
    LET api_key == Strip(OrEmpty(state.user_api_key))
        endpoint == Strip(OrEmpty(state.user_endpoint))
    IN  IF api_key # << >> /\ endpoint # << >>
        THEN build_llm_config_from_input(Text(api_key), Text(endpoint))
        ELSE build_llm_config(state.env)

Credentials(uk, ue, ek, ee) ==
    [user_api_key |-> uk, user_endpoint |-> ue,
     env |-> [AZURE_OPENAI_API_KEY |-> ek, AZURE_OPENAI_ENDPOINT |-> ee]]

\* sidebar and environment, each complete, absent, empty or blank
CredentialCases ==
    {Credentials(Text(<<" ", "k", " ">>), Text(<<"u", "/">>), None, None),
     Credentials(None, None, Text(<<"k">>), Text(<<"u">>)),
     Credentials(None, None, None, None),
     Credentials(Text(<< >>), Text(<< >>), Text(<< >>), Text(<<"u">>)),
     Credentials(Text(<<"k">>), Text(<<" ">>), None, Text(<<"u">>)),
     Credentials(None, None, Text(<<" ">>), Text(<<"u">>)),
     Credentials(Text(<<" ">>), Text(<<"u">>), Text(<<"k">>), Text(<<" ">>))}

InitMain ==
    /\ pc = "launch"
    /\ text_source = DomainText
    /\ text_target = DomainText
    /\ graph_a = None /\ graph_b = None
    /\ mapping = None /\ refined_mapping = None
    /\ ontology_ok = TRUE /\ ontology_issues = << >>
    /\ ref_ontology_ok = TRUE /\ ref_ontology_issues = << >>
    /\ hypothesis = None /\ final_hypothesis = None
    /\ report = None
    /\ calls = [scout |-> 0, matcher |-> 0, critic |-> 0, architect |-> 0]
    /\ llm_calls = 0
    /\ matcher_inputs = << >>
    /\ critic_replies = << >>
    /\ exc = "none"
    /\ memory = MissingFile
    /\ session \in CredentialCases
    /\ llm_config = None
    /\ lpc = [c \in Callers |-> "idle"]
    /\ entries = [c \in Callers |-> << >>]
    /\ clock = 1
    /\ agent = "driver" /\ reply = EmptyReply /\ result = None

\* the "Launch Analysis" button up to the call of run_pipeline: a ValueError is
\* shown and the script stops, else the pipeline starts with the configuration
Launch ==
    /\ pc = "launch"
    /\ LET c == get_live_llm_config(session)
       IN  IF c.raised
           THEN /\ pc' = "config_error" /\ exc' = c.exc /\ llm_config' = llm_config
           ELSE /\ pc' = "scout_a" /\ exc' = exc /\ llm_config' = c.value
    /\ UNCHANGED <<session, lpc, entries, clock, text_source, text_target, graph_a, graph_b,
                   mapping, ontology_ok, ontology_issues, hypothesis, refined_mapping,
                   ref_ontology_ok, ref_ontology_issues, final_hypothesis, report, calls,
                   llm_calls, matcher_inputs, critic_replies, memory, agent, reply, result>>

NextMain ==
    \/ Launch
    \/ Next

SpecMain == InitMain /\ [][NextMain]_vars

(***************************************************************************)
(* The Architect's balanced-brace scan, one iteration of its loop per step  *)
(***************************************************************************)
\* longest cleaned text scanned
MaxBraceLen == 6

BraceChars == {"{", "}", "q", "sq", "bs"}

RECURSIVE TextsUpTo(_, _)
TextsUpTo(chars, n) ==
    IF n = 0 THEN {<< >>}
    ELSE LET shorter == TextsUpTo(chars, n - 1)
         IN  shorter \cup {Append(t, c) : t \in shorter, c \in chars}

InitBrace ==
    /\ pc = "brace_find"
    /\ text_source \in TextsUpTo(BraceChars, MaxBraceLen)
    /\ text_target = << >>
    /\ graph_a = None /\ graph_b = None
    /\ mapping = None /\ refined_mapping = None
    /\ ontology_ok = TRUE /\ ontology_issues = << >>
    /\ ref_ontology_ok = TRUE /\ ref_ontology_issues = << >>
    /\ hypothesis = None /\ final_hypothesis = None
    /\ report = None
    /\ calls = [scout |-> 0, matcher |-> 0, critic |-> 0, architect |-> 0]
    /\ llm_calls = 0
    /\ matcher_inputs = << >>
    /\ critic_replies = << >>
    /\ exc = "none"
    /\ memory = MissingFile
    /\ OutsideIdle
    /\ agent = "architect" /\ reply = EmptyReply /\ result = None

BraceFrame ==
    UNCHANGED <<outside, text_source, text_target, graph_a, graph_b, mapping, ontology_ok,
                ontology_issues, hypothesis, refined_mapping, ref_ontology_ok,
                ref_ontology_issues, final_hypothesis, report, calls, llm_calls,
                matcher_inputs, critic_replies, exc, memory, agent, reply>>

\* start = cleaned_text.find("{"): without a "{" the fallback report is
\* returned, else the scan starts there
FindBrace ==
    /\ pc = "brace_find"
    /\ IF Positions(text_source, OpenBraceToks) = {}
       THEN /\ pc' = "brace_none"
            /\ result' = result
       ELSE /\ pc' = "brace_scan"
            /\ result' = [start |-> Min(Positions(text_source, OpenBraceToks)),
                          i |-> Min(Positions(text_source, OpenBraceToks)),
                          depth |-> 0, in_string |-> FALSE, escape |-> FALSE,
                          quote_char |-> "", json_str |-> << >>]
    /\ BraceFrame

\* variant: a backslash inside a string is an ordinary character
ScanStep_NoEscape ==
    /\ pc = "brace_scan"
    /\ LET i == result.i
           c == text_source[i]
           next == [result EXCEPT !.i = i + 1]
       IN  IF i > Len(text_source)
           THEN /\ result' = [result EXCEPT !.json_str = From(text_source, result.start)]
                /\ pc' = "brace_done"
           ELSE IF ~result.in_string
           THEN IF c = "{"
                THEN /\ result' = [next EXCEPT !.depth = result.depth + 1]
                     /\ pc' = pc
                ELSE IF c = "}"
                THEN IF result.depth - 1 = 0
                     THEN /\ result' = [result EXCEPT
                                          !.depth = 0,
                                          !.json_str = SubSeq(text_source, result.start, i)]
                          /\ pc' = "brace_done"
                     ELSE /\ result' = [next EXCEPT !.depth = result.depth - 1]
                          /\ pc' = pc
                ELSE IF c \in {"sq", "q"}
                THEN /\ result' = [next EXCEPT !.in_string = TRUE, !.quote_char = c]
                     /\ pc' = pc
                ELSE /\ result' = next
                     /\ pc' = pc
           ELSE IF c = result.quote_char
           THEN /\ result' = [next EXCEPT !.in_string = FALSE]
                /\ pc' = pc
           ELSE /\ result' = next
                /\ pc' = pc
    /\ BraceFrame

\* one test of the while condition and one pass through the loop body, or the
\* else branch of the loop when the text has ended
ScanStep ==
    /\ pc = "brace_scan"
    /\ LET i == result.i
           c == text_source[i]
           next == [result EXCEPT !.i = i + 1]
       IN  IF i > Len(text_source)
           THEN /\ result' = [result EXCEPT !.json_str = From(text_source, result.start)]
                /\ pc' = "brace_done"
           ELSE IF result.escape
           THEN /\ result' = [next EXCEPT !.escape = FALSE]
                /\ pc' = pc
           ELSE IF result.in_string /\ c = "bs"
           THEN /\ result' = [next EXCEPT !.escape = TRUE]
                /\ pc' = pc
           ELSE IF ~result.in_string
           THEN IF c = "{"
                THEN /\ result' = [next EXCEPT !.depth = result.depth + 1]
                     /\ pc' = pc
                ELSE IF c = "}"
                THEN IF result.depth - 1 = 0
                     THEN /\ result' = [result EXCEPT
                                          !.depth = 0,
                                          !.json_str = SubSeq(text_source, result.start, i)]
                          /\ pc' = "brace_done"
                     ELSE /\ result' = [next EXCEPT !.depth = result.depth - 1]
                          /\ pc' = pc
                ELSE IF c \in {"sq", "q"}
                THEN /\ result' = [next EXCEPT !.in_string = TRUE, !.quote_char = c]
                     /\ pc' = pc
                ELSE /\ result' = next
                     /\ pc' = pc
           ELSE IF c = result.quote_char
           THEN /\ result' = [next EXCEPT !.in_string = FALSE]
                /\ pc' = pc
           ELSE /\ result' = next
                /\ pc' = pc
    /\ BraceFrame

NextBrace ==
    \/ FindBrace
    \/ ScanStep

\* the loop is run to its end: nothing else is scheduled in _parse_response
SpecBrace == InitBrace /\ [][NextBrace]_vars /\ WF_vars(NextBrace)

(***************************************************************************)
(* The Librarian on its own: reports and prior file contents from bounded   *)
(* sets, store_report in its two file accesses, one or two callers          *)
(***************************************************************************)
\* most entries the memory file holds before a store_report starts
MaxStored == 2

\* valid reports: what the Architect returns for a hypothesis, as the driver
\* completes it, and the same with a tuple or a datetime among the properties
PipelineReports ==
    {[architect_parse_response(RunChat(r), h) EXCEPT !.sources = srcs] :
        r \in {Plain(ReportObj1), EmptyReply}, h \in UnitHypotheses, srcs \in SourceLists}

StoreReports ==
    PipelineReports \cup
    {[rep EXCEPT !.properties = [note |-> x]] :
        rep \in PipelineReports,
        x \in {[k |-> "tuple", v |-> <<JStr("a"), JStr("b")>>], [k |-> "datetime", v |-> 7]}}

\* what the memory file can hold before the first call: no file, text that is
\* not JSON, JSON that is not a list, and lists with entries of every kind
PriorFiles ==
    {MissingFile, GarbageFile, EmptyDict, JList(<< >>),
     JList(<<JStr("note")>>),
     JList(<<JDict([report |-> JStr("lost"), metadata |-> JNull])>>),
     JList(<<JDict([report |-> ReportDump(create_fallback_report(
                                  CriticFallback(FallbackMapping("graph_a", "graph_b")),
                                  "No response from LLM.")),
                    metadata |-> MetadataDump([stored_at |-> 0, frequency |-> 2])])>>)}

\* the queries handed to search_analogies, as their words
Queries == {<< >>, <<"Proceed">>, <<"nothing", "F1">>}

\* the report a run stores: each run has its own input_query
RunReport(c) == [report EXCEPT !.input_query = <<"run", c>>]

InitStore ==
    /\ pc = "librarian"
    /\ report \in StoreReports
    /\ memory \in PriorFiles
    /\ graph_a = None /\ graph_b = None
    /\ text_source = DomainText /\ text_target = DomainText
    /\ mapping = None /\ refined_mapping = None
    /\ ontology_ok = TRUE /\ ontology_issues = << >>
    /\ ref_ontology_ok = TRUE /\ ref_ontology_issues = << >>
    /\ hypothesis = None /\ final_hypothesis = None
    /\ calls = [scout |-> 0, matcher |-> 0, critic |-> 0, architect |-> 0]
    /\ llm_calls = 0
    /\ matcher_inputs = << >>
    /\ critic_replies = << >>
    /\ exc = "none"
    /\ agent = "librarian" /\ reply = EmptyReply /\ result = None
    /\ OutsideIdle

StoreFrame ==
    UNCHANGED <<pc, text_source, text_target, graph_a, graph_b, mapping, ontology_ok,
                ontology_issues, hypothesis, refined_mapping, ref_ontology_ok,
                ref_ontology_issues, final_hypothesis, report, calls, llm_calls,
                matcher_inputs, critic_replies, exc, agent, reply, session, llm_config>>

\* store_report up to entries.append(...): the file is read, the new entry is
\* added to the local list
StoreLoad(c) ==
    /\ lpc[c] = "idle"
    /\ Len(load_memory(memory)) <= MaxStored
    /\ entries' = [entries EXCEPT ![c] = Append(load_memory(memory),
                                                NewEntry(RunReport(c), clock))]
    /\ clock' = clock + 1
    /\ lpc' = [lpc EXCEPT ![c] = "loaded"]
    /\ UNCHANGED <<memory, result>>
    /\ StoreFrame

\* store_report's _save_memory(entries): the file is overwritten
StoreSave(c) ==
    /\ lpc[c] = "loaded"
    /\ memory' = save_memory(entries[c])
    /\ lpc' = [lpc EXCEPT ![c] = "stored"]
    /\ UNCHANGED <<entries, clock, result>>
    /\ StoreFrame

\* store_report has returned: the caller may call it again
StoreReturn(c) ==
    /\ lpc[c] = "stored"
    /\ lpc' = [lpc EXCEPT ![c] = "idle"]
    /\ UNCHANGED <<memory, entries, clock, result>>
    /\ StoreFrame

\* results = librarian.get_all_reports()
GetAllReports ==
    /\ result' = [k |-> "get_all", v |-> get_all_reports(memory)]
    /\ UNCHANGED <<memory, lpc, entries, clock>>
    /\ StoreFrame

\* results = librarian.search_analogies(query_text)
SearchAnalogies ==
    /\ \E q \in Queries : result' = [k |-> "search", v |-> search_analogies(memory, q)]
    /\ UNCHANGED <<memory, lpc, entries, clock>>
    /\ StoreFrame

\* restored = Model.model_validate(value.model_dump(mode="json")) for the graph,
\* the mapping and the report
RoundTrip ==
    /\ \E g \in {EmptyGraph, UnitGraph} :
         result' = [k |-> "round_trip",
                    v |-> [graph |-> g,
                           graph_back |-> LogicalPropertyGraph(GraphDump(g)),
                           mapping_back |-> AnalogyMappingValidate(
                                                MappingDump(report.hypothesis.mapping)),
                           report_back |-> ReportValidate(ReportDump(report))]]
    /\ UNCHANGED <<memory, lpc, entries, clock>>
    /\ StoreFrame

\* one caller: every store_report runs from its load to its save undisturbed
NextStore ==
    \/ StoreLoad(1)
    \/ StoreSave(1)
    \/ StoreReturn(1)
    \/ GetAllReports
    \/ SearchAnalogies
    \/ RoundTrip

SpecStore == InitStore /\ [][NextStore]_vars

\* two pipeline runs share the memory file: their loads and saves interleave
NextStores ==
    \/ \E c \in Callers : StoreLoad(c)
    \/ \E c \in Callers : StoreSave(c)

SpecStores == InitStore /\ [][NextStores]_vars

(***************************************************************************)
(* The document store that app.py and tests/test_librarian.py expect of the *)
(* Librarian: a collection of documents, each with an id of its own; store  *)
(* and deleteById as in the persistence interface of spec.md                *)
(***************************************************************************)
\* most documents ever inserted in one behaviour
MaxDocs == 4

DocReports ==
    {architect_parse_response(RunChat(r), CriticFallback(FallbackMapping("graph_a", "graph_b"))) :
        r \in {Plain(ReportObj1), EmptyReply}}

Collection(docs) == [k |-> "collection", v |-> docs]

\* store(report): a document with a fresh id is added
insert_report(docs, id, rep) == Append(docs, [id |-> id, entry |-> NewEntry(rep, 0)])

\* variant: deletion by content match, every document equal to the one named goes
delete_report_ByContent(docs, id) ==
    LET named == {docs[i].entry : i \in {j \in DOMAIN docs : docs[j].id = id}}
    IN  [deleted |-> named # {},
         docs |-> SelectSeq(docs, LAMBDA d : d.entry \notin named)]

\* deleteById(id) -> bool: delete_one({"_id": id}), true iff a document was deleted
delete_report(docs, id) ==
    [deleted |-> \E i \in DOMAIN docs : docs[i].id = id,
     docs |-> SelectSeq(docs, LAMBDA d : d.id # id)]

InitDocs ==
    /\ pc = "librarian"
    /\ report \in DocReports
    /\ memory = Collection(<< >>)
    /\ graph_a = None /\ graph_b = None
    /\ text_source = DomainText /\ text_target = DomainText
    /\ mapping = None /\ refined_mapping = None
    /\ ontology_ok = TRUE /\ ontology_issues = << >>
    /\ ref_ontology_ok = TRUE /\ ref_ontology_issues = << >>
    /\ hypothesis = None /\ final_hypothesis = None
    /\ calls = [scout |-> 0, matcher |-> 0, critic |-> 0, architect |-> 0]
    /\ llm_calls = 0
    /\ matcher_inputs = << >>
    /\ critic_replies = << >>
    /\ exc = "none"
    /\ agent = "librarian" /\ reply = EmptyReply /\ result = None
    /\ OutsideIdle

\* librarian.store_report(report) on the document store
InsertReport ==
    /\ clock <= MaxDocs
    /\ \E rep \in DocReports : memory' = Collection(insert_report(memory.v, clock, rep))
    /\ clock' = clock + 1
    /\ UNCHANGED <<lpc, entries, result>>
    /\ StoreFrame

\* librarian.delete_report(doc_id), with an id that is or is not in the store
DeleteReport ==
    /\ \E id \in 1..MaxDocs :
         /\ result' = [k |-> "delete", id |-> id, v |-> delete_report(memory.v, id).deleted]
         /\ memory' = Collection(delete_report(memory.v, id).docs)
    /\ UNCHANGED <<lpc, entries, clock>>
    /\ StoreFrame

NextDocs ==
    \/ InsertReport
    \/ DeleteReport

SpecDocs == InitDocs /\ [][NextDocs]_vars

(***************************************************************************)
(* Properties                                                              *)
(***************************************************************************)
\* the Architect has been handed final_hypothesis, or is about to be
Reached == pc \in {"synthesize", "persist", "done"}

\* the entries of the memory file: the items of the JSON list it holds
StoredEntries == IF memory.k = "list" THEN memory.v ELSE << >>

\* the hypothesis stored in an entry of the memory file
StoredHypothesis(e) == e.v["report"].v["hypothesis"].v

\* the branch on the first hypothesis has been taken
Decided == pc \in {"ref_gate", "ref_critique", "synthesize", "persist", "done"}

\* h was returned by the Critic (the driver's own gate hypothesis has no properties)
FromCritic(h) == h.properties.fallback \/ h.properties.critic_raw # None

\* the node a match id resolves to: the last node of the graph with that id
Resolvable(g, id) == \E i \in DOMAIN g.nodes : g.nodes[i].id = id

ResolvedType(g, id) ==
    g.nodes[Max({i \in DOMAIN g.nodes : g.nodes[i].id = id})].node_type

\* match has both ids resolvable and the two nodes have different types
Mismatching(match, ga, gb) ==
    /\ Resolvable(ga, match.source_id)
    /\ Resolvable(gb, match.target_id)
    /\ ResolvedType(ga, match.source_id) # ResolvedType(gb, match.target_id)

HasTypeMismatch(m, ga, gb) ==
    \E i \in DOMAIN m.node_matches : Mismatching(m.node_matches[i], ga, gb)

\* C1: every run ends with the Architect invoked once and one report stored, and
\* no reply content makes the driver abort with an exception
C1_OneReportNeverAborts ==
    /\ pc # "raised"
    /\ exc = "none"
    /\ pc = "done" => (calls.architect = 1 /\ Len(StoredEntries) = 1 /\ report # None)

\* C2: the Matcher and the Critic are each invoked at most twice, and once the
\* second hypothesis is obtained the next step is the Architect, on that
\* hypothesis, whether it is consistent or not
C2_RefinementAtMostOnce ==
    /\ [](calls.matcher <= 2 /\ calls.critic <= 2)
    /\ [](Reached /\ calls.matcher = 2 => final_hypothesis.mapping = refined_mapping)
    /\ [][pc = "synthesize" =>
            /\ pc' = "persist"
            /\ calls'.architect = calls.architect + 1
            /\ calls'.matcher = calls.matcher
            /\ calls'.critic = calls.critic
            /\ report'.hypothesis = final_hypothesis]_vars

C2_Witness ==
    /\ pc = "persist"
    /\ calls.matcher = 2 /\ calls.critic = 2
    /\ ~final_hypothesis.is_consistent
    /\ report.hypothesis = final_hypothesis

\* C3: refinement happens iff the first hypothesis is inconsistent or has a
\* confidence below 0.8; a consistent first hypothesis with confidence >= 0.8
\* means one Matcher call and that hypothesis goes to the Architect
C3_RefineIff ==
    /\ Decided =>
         /\ calls.matcher \in {1, 2}
         /\ (calls.matcher = 2) <=> (~hypothesis.is_consistent \/ hypothesis.confidence < 80)
    /\ (Reached /\ hypothesis.is_consistent /\ hypothesis.confidence >= 80) =>
         /\ calls.matcher = 1
         /\ Len(matcher_inputs) = 1
         /\ final_hypothesis = hypothesis

C3_Witness ==
    /\ Reached
    /\ hypothesis.is_consistent /\ hypothesis.confidence = 80
    /\ calls.matcher = 1
    /\ final_hypothesis = hypothesis

\* C4: when the ontology gate fails on a mapping, the hypothesis for that mapping
\* is inconsistent with confidence 0 and exactly the alignment issues, the Critic
\* is not invoked for that mapping, and the failure is not an exception
C4_GateShortCircuit ==
    /\ ~ontology_ok =>
         /\ ontology_issues # << >>
         /\ hypothesis.mapping = mapping
         /\ hypothesis.is_consistent = FALSE
         /\ hypothesis.confidence = 0
         /\ hypothesis.issues = ontology_issues
         /\ ~FromCritic(hypothesis)
         /\ calls.matcher = 1 => (calls.critic = 0 /\ llm_calls = 3 /\ pc # "raised")
         /\ calls.critic <= 1
    /\ ~ref_ontology_ok =>
         /\ ref_ontology_issues # << >>
         /\ final_hypothesis.mapping = refined_mapping
         /\ final_hypothesis.is_consistent = FALSE
         /\ final_hypothesis.confidence = 0
         /\ final_hypothesis.issues = ref_ontology_issues
         /\ ~FromCritic(final_hypothesis)
         /\ calls.critic = (IF ontology_ok THEN 1 ELSE 0)
         /\ pc # "raised"

C4_Witness ==
    /\ pc = "decide"
    /\ ~ontology_ok
    /\ mapping.score > 0
    /\ hypothesis.confidence = 0
    /\ calls.critic = 0

\* C5: the hypothesis handed to the Architect is inconsistent whenever its mapping
\* has a node match between two existing nodes of different ontology types
C5_MismatchNeverConsistent ==
    /\ (Reached /\ HasTypeMismatch(final_hypothesis.mapping, graph_a, graph_b)) =>
         ~final_hypothesis.is_consistent
    /\ (pc \in {"persist", "done"}
        /\ HasTypeMismatch(report.hypothesis.mapping, graph_a, graph_b)) =>
         ~report.hypothesis.is_consistent

C5_Witness ==
    /\ pc = "persist"
    /\ HasTypeMismatch(report.hypothesis.mapping, graph_a, graph_b)
    /\ ~report.hypothesis.is_consistent
    /\ calls.critic = 1

\* the first hypothesis came from the Critic with a confidence below 0.8
FirstCriticLow == hypothesis # None /\ FromCritic(hypothesis) /\ hypothesis.confidence < 80

\* the feedback the second Matcher call carries
FeedbackGiven ==
    /\ Len(matcher_inputs) = 2
    /\ matcher_inputs[2].v.previous_mapping = MappingModelDump(mapping)
    /\ matcher_inputs[2].v.critic_feedback =
         [is_consistent |-> hypothesis.is_consistent, issues |-> hypothesis.issues,
          confidence |-> hypothesis.confidence]

\* C6 as stated: after a first Critic pass below 0.8 the Matcher and the Critic
\* are both invoked a second time and the final hypothesis is the second Critic
\* result
C6_SecondCriticAlways ==
    (Reached /\ FirstCriticLow) =>
        /\ calls.matcher = 2
        /\ FeedbackGiven
        /\ calls.critic = 2
        /\ final_hypothesis = CriticProcess(refined_mapping, critic_replies[2]).value

\* C6 amended: after a first Critic pass below 0.8 the Matcher is invoked a second
\* time with feedback; the Critic is invoked a second time only when the refined
\* mapping passes the ontology gate, and the final hypothesis is then the second
\* Critic result; when the gate fails it is the gate's rejection hypothesis
C6_OneRefinementCycle ==
    (Reached /\ FirstCriticLow) =>
        /\ calls.matcher = 2
        /\ FeedbackGiven
        /\ IF ref_ontology_ok
           THEN /\ calls.critic = 2
                /\ final_hypothesis = CriticProcess(refined_mapping, critic_replies[2]).value
           ELSE /\ calls.critic = 1
                /\ final_hypothesis.mapping = refined_mapping
                /\ final_hypothesis.is_consistent = FALSE
                /\ final_hypothesis.confidence = 0
                /\ final_hypothesis.issues = ref_ontology_issues

C6_Witness ==
    /\ pc = "persist"
    /\ FirstCriticLow /\ hypothesis.confidence = 50
    /\ calls.matcher = 2 /\ calls.critic = 2
    /\ final_hypothesis.confidence = 50

\* the indices of the mismatching matches, and the issue expected for the j-th
MismatchIdx(m, ga, gb) ==
    {i \in DOMAIN m.node_matches : Mismatching(m.node_matches[i], ga, gb)}

NthMismatch(m, ga, gb, j) ==
    CHOOSE i \in MismatchIdx(m, ga, gb) :
        Cardinality({x \in MismatchIdx(m, ga, gb) : x <= i}) = j

ExpectedIssue(match, ga, gb) ==
    <<"Categorical mismatch", ResolvedType(ga, match.source_id),
      ResolvedType(gb, match.target_id), match.source_id, match.target_id>>

\* C7: check_ontology_alignment returns one issue per mismatching match, in
\* node_matches order, none for a match with a missing id, and ok iff there is none
C7_AlignmentExact ==
    pc = "align_done" =>
        LET idx == MismatchIdx(mapping, graph_a, graph_b)
            M == Cardinality(idx)
        IN  /\ Len(result.issues) = M
            /\ result.ok = (M = 0)
            /\ \A j \in 1..M :
                 result.issues[j] =
                   ExpectedIssue(mapping.node_matches[NthMismatch(mapping, graph_a, graph_b, j)],
                                 graph_a, graph_b)

C7_Witness ==
    /\ pc = "align_done"
    /\ Len(mapping.node_matches) = 3
    /\ Cardinality(MismatchIdx(mapping, graph_a, graph_b)) = 2
    /\ mapping.node_matches[2].source_id = "ghost"
    /\ Len(result.issues) = 2
    /\ ~result.ok

\* what the LLM reported in a parsed Critic reply
LLMVerdict(raw) == IF HasKey(raw, "is_consistent") THEN Truthy(raw.v["is_consistent"]) ELSE TRUE

LLMIssues(raw) ==
    IF ~HasKey(raw, "issues") THEN << >>
    ELSE IF IsList(raw.v["issues"])
         THEN [i \in DOMAIN raw.v["issues"].v |-> IssueStr(raw.v["issues"].v[i])]
         ELSE <<IssueStr(raw.v["issues"])>>

Stricter(h) ==
    (h # None /\ h.properties.critic_raw # None) =>
        /\ h.is_consistent => LLMVerdict(h.properties.critic_raw)
        /\ Len(h.issues) >= Len(LLMIssues(h.properties.critic_raw))
        /\ \A i \in DOMAIN LLMIssues(h.properties.critic_raw) :
             h.issues[i] = LLMIssues(h.properties.critic_raw)[i]

\* C8: a hypothesis built from a parsed Critic reply is consistent only if the
\* LLM said so, and keeps every issue the LLM reported
C8_OnlyStricter == Stricter(hypothesis) /\ Stricter(final_hypothesis)

C8_Witness ==
    /\ hypothesis # None
    /\ hypothesis.properties.critic_raw # None
    /\ LLMVerdict(hypothesis.properties.critic_raw)
    /\ ~hypothesis.is_consistent
    /\ Len(LLMIssues(hypothesis.properties.critic_raw)) = 1
    /\ Len(hypothesis.issues) = 2

\* the malformed replies: empty string, non-JSON text, an array, unbalanced braces
IsMalformed(r) ==
    r.toks \in {EmptyReply.toks, ProseReply.toks, ArrayReply.toks, OpenBraceReply.toks,
                <<"{", "M">>}

IsFallbackReport(rep) ==
    /\ "fallback" \in DOMAIN rep.properties
    /\ rep.summary[1] = "Automated synthesis failed."
    /\ rep.recommendation = "Manual review required."
    /\ rep.action_plan = EmptyActionPlan

IsFallbackOf(a, v) ==
    CASE a = "Scout" -> v = EmptyGraph
      [] a = "Matcher" -> v = FallbackMapping("graph_a", "graph_b")
      [] a = "Critic" -> v = CriticFallback(mapping)
      [] OTHER -> IsFallbackReport(v)

\* C9: for each agent, process on a malformed reply returns the agent's fallback
\* value and does not raise
C9_MalformedGivesFallback ==
    (pc = "agent_done" /\ IsMalformed(reply)) =>
        (~result.raised /\ IsFallbackOf(agent, result.value))

\* C10: Scout.process never raises on a reply, and returns the empty graph for
\* every reply that is not a valid graph object
C10_ScoutNeverRaises ==
    (pc = "agent_done" /\ agent = "Scout") =>
        /\ ~result.raised
        /\ (IsMalformed(reply) \/ reply \in {Plain(o) : o \in BadGraphObjs}) =>
             result.value = EmptyGraph

\* C11: when the Critic's LLM reply is empty, Critic.process returns a hypothesis
\* with confidence 0.0, is_consistent true and exactly the one fallback-marker issue
C11_EmptyCriticReplyFallback ==
    (pc = "agent_done" /\ agent = "Critic" /\ reply.toks = << >>) =>
        /\ ~result.raised
        /\ result.value.confidence = 0
        /\ result.value.is_consistent = TRUE
        /\ Len(result.value.issues) = 1
        /\ result.value.issues = <<CRITIC_FAILED>>

\* the reply text holds a complete JSON object
ContainsObject(r) ==
    \E i \in 1..(Len(r.toks) - 2) :
        r.toks[i] = "{" /\ r.toks[i + 1] = "M" /\ r.toks[i + 2] = "}"

\* C12: Architect.process on an empty or unparseable reply returns the fallback
\* report (summary with the failure reason, manual-review recommendation, empty
\* action plan, fallback flag in properties); a report without the fallback flag
\* comes only from a reply that parsed to a JSON object
C12_ArchitectFallbackReport ==
    (pc = "agent_done" /\ agent = "Architect") =>
        /\ ~result.raised
        /\ result.value.hypothesis = final_hypothesis
        /\ IsMalformed(reply) =>
             /\ "fallback" \in DOMAIN result.value.properties
             /\ result.value.properties.fallback = JBool(TRUE)
             /\ Len(result.value.summary) = 2
             /\ result.value.summary[1] = "Automated synthesis failed."
             /\ result.value.summary[2] = result.value.properties.error.v
             /\ result.value.recommendation = "Manual review required."
             /\ result.value.action_plan = EmptyActionPlan
        /\ "fallback" \notin DOMAIN result.value.properties =>
             /\ ContainsObject(reply)
             /\ result.value.properties.architect_raw = reply.obj

\* the reply texts the Matcher's fence removal and json.loads turn into an object
MatcherParses(r) ==
    r.toks \in {Plain(NoObj).toks, Fenced(NoObj).toks, PreambleFenced(NoObj).toks}

\* every element of the JSON list x is a two-element list of strings
AllStringPairs(x) ==
    \A i \in DOMAIN x.v :
        /\ x.v[i].k = "list"
        /\ Len(x.v[i].v) = 2
        /\ x.v[i].v[1].k = "str" /\ x.v[i].v[2].k = "str"

\* the reply object is a valid mapping apart from its edge_mappings
OtherFieldsValid(o) ==
    /\ HasKey(o, "node_matches") /\ o.v["node_matches"].k = "list"
    /\ \A i \in DOMAIN o.v["node_matches"].v : ValidMatchItem(o.v["node_matches"].v[i])
    /\ HasKey(o, "score") /\ o.v["score"].k = "num"
    /\ o.v["score"].v >= 0 /\ o.v["score"].v <= 100
    /\ HasKey(o, "explanation") /\ o.v["explanation"].k = "str"

\* C13: for a Matcher reply that parses to a JSON object, the mapping's
\* edge_mappings are the reply's when every element is a pair of strings and
\* empty for any other value, and in both cases the reply's node_matches, score
\* and explanation are used
C13_EdgeMappingsSanitized ==
    (pc = "agent_done" /\ agent = "Matcher" /\ MatcherParses(reply)
     /\ OtherFieldsValid(reply.obj)) =>
        LET o == reply.obj
            em == IF HasKey(o, "edge_mappings") THEN o.v["edge_mappings"] ELSE JList(<< >>)
            m == result.value
        IN  /\ ~result.raised
            /\ m.edge_mappings =
                 (IF em.k = "list" /\ AllStringPairs(em)
                  THEN [i \in DOMAIN em.v |-> <<em.v[i].v[1].v, em.v[i].v[2].v>>]
                  ELSE << >>)
            /\ Len(m.node_matches) = Len(o.v["node_matches"].v)
            /\ \A i \in DOMAIN m.node_matches :
                 /\ m.node_matches[i].source_id = o.v["node_matches"].v[i].v["source_id"].v
                 /\ m.node_matches[i].target_id = o.v["node_matches"].v[i].v["target_id"].v
            /\ m.score = o.v["score"].v
            /\ m.explanation = o.v["explanation"].v

\* x is a graph: an instance or a dict that validates as one
IsGraphValue(x) ==
    \/ "nodes" \in DOMAIN x
    \/ (x.k = "dict" /\ LogicalPropertyGraph(x).ok)

\* the two input shapes of Matcher.process: a two-element pair of graphs, or a
\* bag holding graph_a and graph_b
IsPairShape(data) ==
    data.k = "list" /\ Len(data.v) = 2 /\ IsGraphValue(data.v[1]) /\ IsGraphValue(data.v[2])

IsBagShape(data) ==
    /\ data.k = "dict"
    /\ "graph_a" \in DOMAIN data.v /\ "graph_b" \in DOMAIN data.v
    /\ IsGraphValue(data.v["graph_a"]) /\ IsGraphValue(data.v["graph_b"])

\* C14: Matcher.process accepts a two-element pair of graphs or a bag with graph_a
\* and graph_b; for any other input it raises an error, before any LLM call
C14_MatcherInputShapes ==
    (pc = "agent_done" /\ agent = "Matcher") =>
        LET data == matcher_inputs[1]
        IN  IF IsPairShape(data) \/ IsBagShape(data)
            THEN ~result.raised /\ llm_calls = 1
            ELSE /\ result.raised
                 /\ result.exc \in {"ValueError", "ValidationError"}
                 /\ llm_calls = 0

\* the text is empty or holds whitespace only
IsBlankText(t) == \A i \in DOMAIN t : t[i] \in {"sp", "nl"}

\* C15: Scout.process on an empty or whitespace-only input returns the empty
\* graph and issues no LLM call
C15_BlankInputNoLLM ==
    (pc = "agent_done" /\ agent = "Scout" /\ IsBlankText(text_source)) =>
        /\ ~result.raised
        /\ result.value.nodes = << >> /\ result.value.edges = << >>
        /\ llm_calls = 0

C15_Witness ==
    /\ pc = "agent_done" /\ agent = "Scout"
    /\ text_source = <<"sp", "nl">>
    /\ reply = Plain(GraphObj1)
    /\ result.value = [nodes |-> << >>, edges |-> << >>]
    /\ llm_calls = 0

\* the reply texts the Scout's fence removal and json.loads turn into an object
ScoutParses(r) == r.toks \in {Plain(NoObj).toks, Fenced(NoObj).toks}

\* the reply object is a graph apart from its nodes' types: nodes is a list of
\* objects with string id and label, edges is absent or a list of valid edges
GraphApartFromTypes(o) ==
    /\ "nodes" \in DOMAIN o.v /\ o.v["nodes"].k = "list"
    /\ \A i \in DOMAIN o.v["nodes"].v :
         LET n == o.v["nodes"].v[i]
         IN  /\ n.k = "dict"
             /\ "id" \in DOMAIN n.v /\ n.v["id"].k = "str"
             /\ "label" \in DOMAIN n.v /\ n.v["label"].k \in {"str", "text"}
    /\ "edges" \in DOMAIN o.v =>
         (o.v["edges"].k = "list" /\ \A i \in DOMAIN o.v["edges"].v :
                                        ValidEdgeItem(o.v["edges"].v[i]))

\* normalizeType of a reply node: its type when it is one of the three, else STRUCTURE
ExpectedType(n) ==
    IF "node_type" \in DOMAIN n.v /\ n.v["node_type"].k = "str"
       /\ n.v["node_type"].v \in {"STRUCTURE", "FUNCTION", "ATTRIBUTE"}
    THEN n.v["node_type"].v
    ELSE "STRUCTURE"

\* C16: every node of a graph returned by Scout has one of the three types; a
\* parsed node keeps a valid type and gets STRUCTURE for an absent or invalid one,
\* and an invalid type never discards the node or the graph
C16_NodeTypesNormalized ==
    (pc = "agent_done" /\ agent = "Scout") =>
        /\ ~result.raised =>
             \A i \in DOMAIN result.value.nodes :
                 result.value.nodes[i].node_type \in {"STRUCTURE", "FUNCTION", "ATTRIBUTE"}
        /\ (~IsBlankText(text_source) /\ ScoutParses(reply) /\ GraphApartFromTypes(reply.obj)) =>
             /\ ~result.raised
             /\ Len(result.value.nodes) = Len(reply.obj.v["nodes"].v)
             /\ \A i \in DOMAIN result.value.nodes :
                  /\ result.value.nodes[i].id = reply.obj.v["nodes"].v[i].v["id"].v
                  /\ result.value.nodes[i].node_type = ExpectedType(reply.obj.v["nodes"].v[i])

\* a score or confidence in [0, 1], in hundredths
InUnit(x) == x >= 0 /\ x <= 100

MappingInRange(m) == m # None => InUnit(m.score)

HypothesisInRange(h) == h # None => (InUnit(h.confidence) /\ InUnit(h.mapping.score))

\* the i-th Critic reply is an object whose confidence is a number outside [0, 1]
CriticReplyOutOfRange(i) ==
    LET r == critic_replies[i]
    IN  /\ r.toks = <<"{", "M", "}">>
        /\ "confidence" \in DOMAIN r.obj.v
        /\ r.obj.v["confidence"].k = "num"
        /\ ~InUnit(r.obj.v["confidence"].v)

\* C17: every mapping score and hypothesis confidence of a run lies in [0, 1]; a
\* reply with an out-of-range value makes the construction fail (the Matcher
\* falls back, the Critic's hypothesis is never built), it is not clamped
C17_ScoresInUnitInterval ==
    /\ MappingInRange(mapping) /\ MappingInRange(refined_mapping)
    /\ HypothesisInRange(hypothesis) /\ HypothesisInRange(final_hypothesis)
    /\ report # None => HypothesisInRange(report.hypothesis)
    /\ \A i \in DOMAIN StoredEntries :
         /\ InUnit(StoredHypothesis(StoredEntries[i])["confidence"].v)
         /\ InUnit(StoredHypothesis(StoredEntries[i])["mapping"].v["score"].v)
    /\ \A m \in {mapping, refined_mapping} :
         (m # None /\ m.node_matches = << >> /\ m.explanation = "analogy") => m.score # 100
    /\ \A i \in DOMAIN critic_replies :
         CriticReplyOutOfRange(i) =>
             /\ i = Len(critic_replies)
             /\ pc = "raised" /\ exc = "ValidationError"
             /\ (calls.matcher = 1 => hypothesis = None)
             /\ final_hypothesis = None

C17_Witness ==
    /\ pc = "raised" /\ exc = "ValidationError"
    /\ Len(critic_replies) = 2
    /\ CriticReplyOutOfRange(2)
    /\ hypothesis.confidence = 50
    /\ refined_mapping.score = 0
    /\ refined_mapping.explanation = "Failed to parse Matcher response."
    /\ final_hypothesis = None

\* the JSON object an extraction yields; a value that is not an object counts as
\* a failure, as it does for every agent
ObjectOf(x) == IF x.ok /\ x.val.k = "dict" THEN x ELSE [ok |-> FALSE, val |-> JNull]

\* C18: whichever agent parses a reply text, the JSON value extracted from it (or
\* the failure to extract one) is the same: Scout, Matcher and Critic extract
\* exactly what the Architect extracts
C18_SameExtraction ==
    pc = "agent_done" =>
        LET content == RunChat(reply)
        IN  /\ ObjectOf(scout_extract(content)) = ObjectOf(architect_extract(content))
            /\ ObjectOf(matcher_extract(content)) = ObjectOf(architect_extract(content))
            /\ ObjectOf(critic_extract(content)) = ObjectOf(architect_extract(content))

\* C19: label normalization is idempotent: a second application returns the
\* first result unchanged
C19_PascalCaseIdempotent ==
    pc = "label_again" => result.value = text_target

\* the positions of the letters of a label, and the k-th of them
LetterIdx(s) == {i \in DOMAIN s : s[i] \notin {" ", "_"}}

NthLetter(s, k) ==
    CHOOSE i \in LetterIdx(s) : Cardinality({j \in LetterIdx(s) : j <= i}) = k

\* position i starts a word: it is the first position or follows a separator
StartsWord(s, i) == i = 1 \/ s[i - 1] \in {" ", "_"}

\* C20: a label of lowercase words gives the words, each with its first letter
\* upper-cased, concatenated without separators, whatever runs of whitespace and
\* underscores separate or surround them; the empty label is returned unchanged
C20_LowercaseWordsNormalized ==
    pc = "label_done" =>
        /\ text_source = << >> => result.value = << >>
        /\ (LetterIdx(text_source) # {}
            /\ \A i \in LetterIdx(text_source) : text_source[i] \in {"a", "b"}) =>
             /\ Len(result.value) = Cardinality(LetterIdx(text_source))
             /\ \A k \in DOMAIN result.value :
                  LET i == NthLetter(text_source, k)
                      c == text_source[i]
                  IN  result.value[k] =
                        (IF StartsWord(text_source, i)
                         THEN (IF c = "a" THEN "A" ELSE "B")
                         ELSE c)

C20_Witness ==
    /\ pc = "label_done"
    /\ text_source = <<" ", "a", "_", " ", "b">>
    /\ result.value = <<"A", "B">>

\* the values of a properties dict are JSON values: no tuple, no datetime
JsonValued(props) == \A f \in DOMAIN props : props[f].k \notin {"tuple", "datetime"}

\* the value a round trip compares, and the report get_all_reports lists last
BackEqual(r) ==
    /\ r.v.graph_back.ok /\ r.v.graph_back.val = r.v.graph
    /\ r.v.mapping_back.ok /\ r.v.mapping_back.val = report.hypothesis.mapping
    /\ r.v.report_back.ok /\ r.v.report_back.val = report

LastListed(r) == r.v[Len(r.v)][1]

\* get_all_reports runs right after caller 1's store_report
ListsAfterStore == lpc[1] = "stored" /\ result'.k = "get_all" /\ lpc' = lpc

DriverStep == pc = "persist" /\ pc' = "done"

\* the driver adds the two graphs and the timestamp to the properties and keeps
\* those the Architect set
PropertiesAnnotated ==
    /\ DOMAIN report'.properties =
         DOMAIN report.properties \cup {"graph_a", "graph_b", "stored_at"}
    /\ report'.properties["graph_a"] = GraphDump(graph_a)
    /\ report'.properties["graph_b"] = GraphDump(graph_b)
    /\ report'.properties["stored_at"].k = "str"
    /\ \A f \in DOMAIN report.properties \ {"graph_a", "graph_b", "stored_at"} :
         report'.properties[f] = report.properties[f]

ArchitectFields == {"hypothesis", "summary", "findings", "recommendation", "action_plan"}

\* C22 as stated: between the Architect's return and the store the driver adds
\* the graphs and the timestamp to properties and sets sources, and leaves every
\* other field, the input query included, as the Architect produced it
C22_ExactlyTwoChanges ==
    [][DriverStep =>
         /\ PropertiesAnnotated
         /\ report'.sources \in SourceLists
         /\ \A f \in ArchitectFields \cup {"input_query"} : report'[f] = report[f]]_vars

\* C22: between the Architect's return and the store the driver changes the
\* report in three ways: it adds the graphs and the timestamp to properties, sets
\* sources, and sets input_query to "<source text> | <target text>"; hypothesis,
\* summary, findings, recommendation and action plan stay as the Architect
\* produced them
C22_ThreeChanges ==
    [][DriverStep =>
         /\ PropertiesAnnotated
         /\ report'.sources \in SourceLists
         /\ report'.input_query = text_source \o <<" | ">> \o text_target
         /\ \A f \in ArchitectFields : report'[f] = report[f]]_vars

C22_Witness ==
    /\ pc = "done"
    /\ DOMAIN report.properties = {"graph_a", "graph_b", "stored_at", "architect_raw"}
    /\ report.sources = <<"https://example.org/a">>
    /\ report.input_query = text_source \o <<" | ">> \o text_target
    /\ report.input_query # <<"">>
    /\ Len(StoredEntries) = 1

\* a step in which get_all_reports reads the memory
ListStep == result'.k = "get_all" /\ lpc' = lpc /\ memory' = memory

\* C23: get_all_reports returns one (report, metadata, id) triple per stored
\* document, newest first by storage time: after a store_report the report just
\* stored is the first element
C23_TriplesNewestFirst ==
    [][ListStep =>
         LET listed == result'.v
         IN  /\ Len(listed) = Len(SelectSeq(load_memory(memory), LAMBDA e : IsDict(e)))
             /\ \A i \in DOMAIN listed : Len(listed[i]) = 3
             /\ \A i, j \in DOMAIN listed :
                  i < j => listed[i][2].stored_at >= listed[j][2].stored_at
             /\ (lpc[1] = "stored" /\ listed # << >>) => listed[1][1] = RunReport(1)]_vars

\* a step of delete_report: the only steps of the document store that leave the
\* id counter alone
DeleteStep == result'.k = "delete" /\ clock' = clock

HasId(docs, id) == \E i \in DOMAIN docs : docs[i].id = id

Blank(x) == Strip(OrEmpty(x)) = << >>

\* neither the sidebar nor the environment holds both a key and an endpoint
CredentialsMissing ==
    /\ Blank(session.user_api_key) \/ Blank(session.user_endpoint)
    /\ Blank(session.env.AZURE_OPENAI_API_KEY) \/ Blank(session.env.AZURE_OPENAI_ENDPOINT)

\* C25: with a missing or blank API key or endpoint the configuration error is
\* raised before any stage: no agent runs, no LLM call is issued, no report is
\* stored
C25_NoStageWithoutCredentials ==
    CredentialsMissing =>
        /\ \A a \in DOMAIN calls : calls[a] = 0
        /\ llm_calls = 0
        /\ memory = MissingFile

\* the order of the stages of run_pipeline, as steps of its position
StageSteps ==
    {<<"scout_a", "scout_b">>, <<"scout_b", "match">>, <<"match", "gate">>,
     <<"gate", "critique">>, <<"gate", "decide">>, <<"critique", "decide">>,
     <<"decide", "ref_gate">>, <<"decide", "synthesize">>,
     <<"ref_gate", "ref_critique">>, <<"ref_gate", "synthesize">>,
     <<"ref_critique", "synthesize">>, <<"synthesize", "persist">>, <<"persist", "done">>}

\* what a stage needs is there when the driver is about to start it
InputsAvailable ==
    /\ pc \in {"scout_b", "match", "gate"} => graph_a # None
    /\ pc \in {"match", "gate"} => graph_b # None
    /\ pc \in {"gate", "critique"} => mapping # None
    /\ pc = "decide" => hypothesis # None
    /\ pc \in {"ref_gate", "ref_critique"} => refined_mapping # None
    /\ pc = "synthesize" => final_hypothesis # None
    /\ pc = "persist" => report # None

\* the Critic is about to be called on a mapping the gate has already passed
GatePassed ==
    /\ pc = "critique" =>
         /\ ontology_ok
         /\ check_ontology_alignment(mapping, graph_a, graph_b).ok
    /\ pc = "ref_critique" =>
         /\ ref_ontology_ok
         /\ check_ontology_alignment(refined_mapping, graph_a, graph_b).ok

\* the number of agent invocations made by a step
Invoked == calls'.scout + calls'.matcher + calls'.critic + calls'.architect
           - (calls.scout + calls.matcher + calls.critic + calls.architect)

\* C26: the stages of a run start in the order Scout(A), Scout(B), Matcher,
\* gate, Critic, then optionally Matcher(refine), gate, Critic, then Architect;
\* a stage starts only when its predecessor's output is there, the Critic is
\* only called on a mapping the gate has passed, and a step of the driver makes
\* at most one agent invocation and at most one LLM call, each completed before
\* the next step
C26_StagesInOrder ==
    [][/\ pc' # pc => (pc' = "raised" \/ <<pc, pc'>> \in StageSteps)
       /\ InputsAvailable /\ InputsAvailable'
       /\ GatePassed /\ GatePassed'
       /\ calls'.critic # calls.critic => pc \in {"critique", "ref_critique"}
       /\ Invoked \in {0, 1}
       /\ llm_calls' - llm_calls \in {0, 1}
       /\ llm_calls' - llm_calls <= Invoked]_vars

\* a run with refinement: seven LLM calls, one per stage, the second Critic call
\* on a refined mapping that passed the gate
C26_Witness ==
    /\ pc = "done"
    /\ calls = [scout |-> 2, matcher |-> 2, critic |-> 2, architect |-> 1]
    /\ llm_calls = 7
    /\ ontology_ok /\ ref_ontology_ok

\* the string-literal state after each character from the first "{" on: inside a
\* literal or not, the quote that opened it, and whether the next character is
\* escaped
LiteralStates(s, start) ==
    LET st[i \in (start - 1)..Len(s)] ==
            IF i = start - 1 THEN [inside |-> FALSE, quote |-> "", escaped |-> FALSE]
            ELSE LET p == st[i - 1]
                 IN  IF p.escaped THEN [p EXCEPT !.escaped = FALSE]
                     ELSE IF p.inside
                     THEN (IF s[i] = "bs" THEN [p EXCEPT !.escaped = TRUE]
                           ELSE IF s[i] = p.quote THEN [p EXCEPT !.inside = FALSE]
                           ELSE p)
                     ELSE IF s[i] \in {"q", "sq"}
                     THEN [inside |-> TRUE, quote |-> s[i], escaped |-> FALSE]
                     ELSE p
    IN  st

\* the braces that count: those outside string literals
CountedBraces(s, start, brace) ==
    {i \in start..Len(s) : s[i] = brace /\ ~LiteralStates(s, start)[i - 1].inside}

\* the positions of the "}" that bring the depth back to zero
ClosingPositions(s, start) ==
    {i \in CountedBraces(s, start, "}") :
        Cardinality({j \in CountedBraces(s, start, "{") : j < i})
        = Cardinality({j \in CountedBraces(s, start, "}") : j <= i})}

\* C27: the scan yields the text from the first "{" to the first "}" outside
\* string literals that brings the depth back to zero (a literal is opened by a
\* single or double quote and closed by the same quote, a backslash in it
\* escapes the next character), or the whole remainder from the first "{" when
\* there is no such "}"; it is the candidate the Architect parses; and the scan
\* ends on every text, each iteration moving one character on
C27_BalancedBraceScan ==
    /\ [](pc = "brace_done" =>
            LET start == Min(Positions(text_source, OpenBraceToks))
                closing == ClosingPositions(text_source, start)
            IN  /\ result.json_str =
                     (IF closing = {} THEN From(text_source, start)
                      ELSE SubSeq(text_source, start, Min(closing)))
                /\ result.json_str = BraceCandidate(text_source))
    /\ [][pc = "brace_scan" /\ pc' = "brace_scan" => result'.i = result.i + 1]_vars
    /\ <>(pc \in {"brace_done", "brace_none"})

\* a "}" inside a literal that an escaped quote keeps open: the text ends first
C27_Witness ==
    /\ pc = "brace_done"
    /\ text_source = <<"{", "q", "bs", "q", "}", "}">>
    /\ result.json_str = text_source

\* the mapping a previous_mapping dict stands for, read field by field
MappingOfDump(d) ==
    [graph_a_id |-> d.v["graph_a_id"].v, graph_b_id |-> d.v["graph_b_id"].v,
     node_matches |-> [i \in DOMAIN d.v["node_matches"].v |->
                         NodeMatch(d.v["node_matches"].v[i])],
     edge_mappings |-> [i \in DOMAIN d.v["edge_mappings"].v |->
                          <<d.v["edge_mappings"].v[i].v[1].v,
                            d.v["edge_mappings"].v[i].v[2].v>>],
     score |-> d.v["score"].v, explanation |-> d.v["explanation"].v]

\* the driver is past the first gate, past the second gate
PastGate == pc \in {"critique", "decide", "ref_gate", "ref_critique", "synthesize",
                    "persist", "done"}

PastRefineGate ==
    pc = "ref_critique" \/ (pc \in {"synthesize", "persist", "done"} /\ calls.matcher = 2)

\* C28: the first Matcher call receives the two graphs only; the refinement call
\* receives the same graphs, previous_mapping standing for the first mapping,
\* and critic_feedback with the first hypothesis's is_consistent, issues and
\* confidence (the alignment issues and 0.0 when the gate built it); both gates
\* are evaluated against the same two graphs
C28_RefinementInputs ==
    /\ Len(matcher_inputs) >= 1 =>
         /\ DOMAIN matcher_inputs[1].v = {"graph_a", "graph_b"}
         /\ matcher_inputs[1].v.graph_a = graph_a
         /\ matcher_inputs[1].v.graph_b = graph_b
    /\ Len(matcher_inputs) >= 2 =>
         LET data == matcher_inputs[2].v
         IN  /\ Len(matcher_inputs) = 2
             /\ DOMAIN data = {"graph_a", "graph_b", "previous_mapping", "critic_feedback"}
             /\ data.graph_a = graph_a /\ data.graph_b = graph_b
             /\ MappingOfDump(data.previous_mapping) = mapping
             /\ data.critic_feedback.is_consistent = hypothesis.is_consistent
             /\ data.critic_feedback.issues = hypothesis.issues
             /\ data.critic_feedback.confidence = hypothesis.confidence
             /\ ~ontology_ok =>
                  /\ ~data.critic_feedback.is_consistent
                  /\ data.critic_feedback.issues = ontology_issues
                  /\ data.critic_feedback.confidence = 0
    /\ PastGate =>
         /\ ontology_ok = check_ontology_alignment(mapping, graph_a, graph_b).ok
         /\ ontology_issues = check_ontology_alignment(mapping, graph_a, graph_b).issues
    /\ PastRefineGate =>
         /\ ref_ontology_ok = check_ontology_alignment(refined_mapping, graph_a, graph_b).ok
         /\ ref_ontology_issues =
              check_ontology_alignment(refined_mapping, graph_a, graph_b).issues

\* a refinement after a failed first gate, with a mapping that has edge pairs
C28_Witness ==
    /\ pc = "ref_gate"
    /\ Len(matcher_inputs) = 2
    /\ ~ontology_ok /\ ontology_issues # << >>
    /\ matcher_inputs[2].v.critic_feedback.issues = ontology_issues
    /\ mapping.edge_mappings # << >>
    /\ calls.critic = 0

\* the reports the memory file holds, in file order
StoredReports ==
    [i \in DOMAIN get_all_reports(memory) |-> get_all_reports(memory)[i][1]]

\* C29: once two concurrent store_report calls on the same memory file have both
\* completed, the memory holds both reports, however their loads and saves
\* interleave
C29_BothReportsStored ==
    (\A c \in Callers : lpc[c] = "stored") =>
        \A c \in Callers :
           \E i \in DOMAIN StoredReports : StoredReports[i].input_query = RunReport(c).input_query

\* the entries of the memory file as store_report loads them
FileEntries(file) == IF file.k = "list" THEN file.v ELSE << >>

\* a whole store_report call of the one caller has completed in this step
StoreCompleted == lpc[1] = "loaded" /\ lpc'[1] = "stored"

\* a step of get_all_reports or search_analogies
ReadStep == result'.k \in {"get_all", "search"} /\ lpc' = lpc /\ clock' = clock

\* C30: store_report only appends: the entries that were in the memory before
\* the call are all there, unchanged and in their places, after it, followed by
\* one new entry that holds the report with frequency 0; get_all_reports and
\* search_analogies leave the memory, and so every frequency, as it was; for
\* every prior content of the memory file
C30_StoreOnlyAppends ==
    [][/\ StoreCompleted =>
            LET before == FileEntries(memory)
                after == FileEntries(memory')
            IN  /\ memory'.k = "list"
                /\ Len(after) = Len(before) + 1
                /\ \A i \in DOMAIN before : after[i] = before[i]
                /\ after[Len(after)].v["metadata"].v["frequency"] = JNum(0)
                /\ ReportValidate(after[Len(after)].v["report"]).ok
                /\ JsonValued(report.properties) =>
                     ReportValidate(after[Len(after)].v["report"]).val = RunReport(1)
       /\ ReadStep => memory' = memory]_vars

\* a second store_report has completed on a file that held an entry that is not
\* a dict
C30_Witness ==
    /\ lpc[1] = "stored"
    /\ Len(StoredEntries) = 3
    /\ StoredEntries[1] = JStr("note")
    /\ StoredEntries[3].v["metadata"].v["frequency"] = JNum(0)
    /\ result.k = "search"

====
